---- MODULE Spec2Model ----
(***************************************************************************)
(* Layered filesystem view engine of lix/cek: cat, ls and compare over the *)
(* ordered layers of an OCI image.                                         *)
(*                                                                         *)
(* Strings the code takes apart (archive names, paths) are sequences of    *)
(* one-character strings, so that TrimPrefix, HasPrefix, filepath.Base and *)
(* sort.Strings are computed character by character as the code does.      *)
(***************************************************************************)
EXTENDS Integers, Sequences, FiniteSets, TLC

VARIABLES
    img1,     \* the image FetchImage returns for the (first) reference
    img2,     \* the image FetchImage returns for the second reference (compare)
    args,     \* the command's arguments and options
    pc,       \* position of the running command
    local,    \* the command's local variables
    stdout,   \* what cli.Printf has written, in order
    err,      \* the error the command returned (<<>> is nil)
    io        \* collaborator calls made so far, in order

vars == <<img1, img2, args, pc, local, stdout, err, io>>

-----------------------------------------------------------------------------
(* Bounds of the model. *)

\* most layers in an image of the cat / ls specifications
MaxLayers == 3
\* most archive entries in an image of the cat / ls specifications, all layers together
MaxTotal == 3
\* most paths in each of the two path sets handed to compareFiles
MaxFiles == 3
\* most entries in the flat collection handed to printTreeSimple
MaxTreeFiles == 3
\* most archive entries in an image of the --layer specification
FlagMaxTotal == 2
\* most entries in the listing handed to filterFiles
MaxFilterFiles == 3
\* most layers in each image of the compare specification
CmpMaxLayers == 2
\* most archive entries in the two images of the compare specification together
CmpMaxTotal == 3

-----------------------------------------------------------------------------
(* Go string functions, on sequences of characters. *)

HasPrefix(s, prefix) ==
    /\ Len(s) >= Len(prefix)
    /\ SubSeq(s, 1, Len(prefix)) = prefix

TrimPrefix(s, prefix) ==
    IF HasPrefix(s, prefix) THEN SubSeq(s, Len(prefix) + 1, Len(s)) ELSE s

\* filepath.Base: trailing separators removed, then the text after the last
\* separator; "." for the empty path and "/" for a path of separators only.
RECURSIVE StripTrailingSlashes(_)
StripTrailingSlashes(s) ==
    IF Len(s) > 0 /\ s[Len(s)] = "/"
    THEN StripTrailingSlashes(SubSeq(s, 1, Len(s) - 1))
    ELSE s

LastSlash(s) ==
    LET at == {i \in 1..Len(s) : s[i] = "/"}
    IN IF at = {} THEN 0 ELSE CHOOSE i \in at : \A j \in at : j <= i

Base(path) ==
    IF path = <<>> THEN <<".">>
    ELSE LET stripped == StripTrailingSlashes(path)
             rest == SubSeq(stripped, LastSlash(stripped) + 1, Len(stripped))
         IN IF rest = <<>> THEN <<"/">> ELSE rest

\* the deletion-marker prefix ".wh."
WhPrefix == <<".", "w", "h", ".">>

\* a plausible slip: the slash put in front of the name as it stands
NormPathNoTrim(name) == <<"/">> \o name

\* "/" + strings.TrimPrefix(name, "/")
NormPath(name) == <<"/">> \o TrimPrefix(name, <<"/">>)

-----------------------------------------------------------------------------
(* Archive entries and layers. *)

TypeReg == "0"
TypeSymlink == "2"
TypeDir == "5"

\* an archive record: the header fields the code reads, the content bytes, and
\* Bad = "header" when tr.Next() fails to decode this record, "content" when
\* reading its content fails
Entry(name, typeflag, mode, size, content, bad) ==
    [Name |-> name, Typeflag |-> typeflag, Mode |-> mode, Size |-> size,
     Content |-> content, Bad |-> bad]

File_da_v1 == Entry(<<"d", "/", "a">>, TypeReg, 420, 2, "v1", "")
File_sda_v2 == Entry(<<"/", "d", "/", "a">>, TypeReg, 384, 3, "v2!", "")
Wh_da == Entry(<<"d", "/", ".", "w", "h", ".", "a">>, TypeReg, 0, 0, "", "")
Link_da == Entry(<<"d", "/", "a">>, TypeSymlink, 511, 0, "", "")
BadHeader == Entry(<<>>, TypeReg, 0, 0, "", "header")

CatEntries == {File_da_v1, File_sda_v2, Wh_da, Link_da, BadHeader}

\* a layer: its archive records in archive order; OpenErr when Uncompressed() fails
Layer(entries, openErr) == [entries |-> entries, openErr |-> openErr]

\* stands, in a generated archive, for a layer whose Uncompressed() fails
OpenFails == Entry(<<>>, TypeReg, 0, 0, "", "open")

MkLayer(entries) ==
    IF \E k \in 1..Len(entries) : entries[k] = OpenFails
    THEN Layer(<<>>, TRUE)
    ELSE Layer(entries, FALSE)

RECURSIVE SumSeq(_)
SumSeq(f) == IF Len(f) = 0 THEN 0 ELSE f[1] + SumSeq(Tail(f))

\* the records es cut into layers of the given sizes, bottom layer first
RECURSIVE Cut(_, _)
Cut(es, sizes) ==
    IF Len(sizes) = 0 THEN <<>>
    ELSE <<MkLayer(SubSeq(es, 1, sizes[1]))>>
             \o Cut(SubSeq(es, sizes[1] + 1, Len(es)), Tail(sizes))

\* an image: its ordered layers (index 0, the base, is layers[1]) and its config
Image(layers, config) == [layers |-> layers, config |-> config]

\* what FetchImage yields when neither daemon nor registry has the reference
Unavailable == [unavailable |-> TRUE]

\* the value of a variable the running command does not use
Unused == "unused"

None == <<>>

-----------------------------------------------------------------------------
(* cat: RunCat and extractFileFromLayer (internal/command/cat.go). *)

\* the loop of extractFileFromLayer over the archive records from record i on
RECURSIVE ScanForFile(_, _, _)
ScanForFile(entries, i, normalizedTarget) ==
    IF i > Len(entries)
    THEN [content |-> "", found |-> FALSE, err |-> None]
    ELSE LET header == entries[i]
             tarPath == NormPath(header.Name)
         IN IF header.Bad = "header"
            THEN [content |-> "", found |-> FALSE,
                  err |-> <<"failed to read tar header">>]
            ELSE IF tarPath = normalizedTarget
            THEN IF HasPrefix(Base(header.Name), WhPrefix)
                 THEN [content |-> "", found |-> FALSE, err |-> None]
                 ELSE IF header.Typeflag # TypeReg
                 THEN [content |-> "", found |-> FALSE,
                       err |-> <<"not a regular file", normalizedTarget,
                                 header.Typeflag>>]
                 ELSE IF header.Bad = "content"
                 THEN [content |-> "", found |-> FALSE,
                       err |-> <<"failed to read file contents">>]
                 ELSE [content |-> header.Content, found |-> TRUE, err |-> None]
            ELSE ScanForFile(entries, i + 1, normalizedTarget)

\* a plausible slip: a layer that fails to open or decode taken for one that
\* does not hold the file
extractFileFromLayerNoError(layer, targetPath) ==
    IF layer.openErr
    THEN [content |-> "", found |-> FALSE, err |-> None,
          calls |-> <<"Uncompressed">>]
    ELSE LET r == ScanForFile(layer.entries, 1, NormPath(targetPath))
         IN [content |-> r.content, found |-> r.found, err |-> None,
             calls |-> <<"Uncompressed", "Close">>]

\* (content, found, error) and the stream calls made: the stream is opened
\* first and, once open, closed by the deferred rc.Close() on every return
extractFileFromLayer(layer, targetPath) ==
    IF layer.openErr
    THEN [content |-> "", found |-> FALSE,
          err |-> <<"failed to get uncompressed layer">>,
          calls |-> <<"Uncompressed">>]
    ELSE LET r == ScanForFile(layer.entries, 1, NormPath(targetPath))
         IN [content |-> r.content, found |-> r.found, err |-> r.err,
             calls |-> <<"Uncompressed", "Close">>]

\* i, i-1, ..., 0
RECURSIVE CountDown(_)
CountDown(i) == IF i < 0 THEN <<>> ELSE <<i>> \o CountDown(i - 1)

RECURSIVE CountUp(_, _)
CountUp(i, n) == IF i >= n THEN <<>> ELSE <<i>> \o CountUp(i + 1, n)

\* a plausible slip: the overlay searched from the base layer upwards
LayersToSearchBottomUp(n, layer) ==
    IF layer > 0 THEN <<layer - 1>> ELSE CountUp(0, n)

\* layersToSearch of RunCat (0-based layer indices) for an image of n layers,
\* once the requested layer is known to exist
LayersToSearch(n, layer) ==
    IF layer > 0 THEN <<layer - 1>> ELSE CountDown(n - 1)

\* the calls of one layer, tagged with the layer's index
Tagged(calls, layerIdx) ==
    [k \in 1..Len(calls) |-> [call |-> calls[k], layer |-> layerIdx]]

\* filePath as RunCat passes it on: "/" put in front unless it is there
CatFilePath(filePath) ==
    IF ~HasPrefix(filePath, <<"/">>) THEN <<"/">> \o filePath ELSE filePath

CatPaths == {<<"d", "/", "a">>, <<"/", "d", "/", "a">>}

LayerCount(img) == IF img = Unavailable THEN 0 ELSE Len(img.layers)

CatInit ==
    /\ \/ img1 = Unavailable
       \/ \E n \in 0..MaxLayers, t \in 0..MaxTotal :
            \E sizes \in [1..n -> 0..t] :
                /\ SumSeq(sizes) = t
                /\ \E es \in [1..t -> CatEntries \cup {OpenFails}] :
                        img1 = Image(Cut(es, sizes), "c1")
    /\ img2 = Unused
    /\ args \in {[filePath |-> p, Layer |-> l] :
                    p \in CatPaths, l \in {-1} \cup (1..(LayerCount(img1) + 1))}
    /\ pc = "start"
    /\ local = Unused
    /\ stdout = <<>>
    /\ err = None
    /\ io = <<>>

\* RunCat up to its search loop
CatStart ==
    /\ pc = "start"
    /\ io' = <<[call |-> "FetchImage", layer |-> -1]>>
              \o (IF img1 = Unavailable THEN <<>>
                  ELSE <<[call |-> "Layers", layer |-> -1]>>)
    /\ IF img1 = Unavailable
       THEN /\ err' = <<"failed to fetch image">>
            /\ pc' = "done"
            /\ local' = local
       ELSE IF args.Layer > 0 /\ args.Layer > Len(img1.layers)
       THEN /\ err' = <<"layer does not exist", args.Layer, Len(img1.layers)>>
            /\ pc' = "done"
            /\ local' = local
       ELSE /\ err' = err
            /\ pc' = "search"
            /\ local' = [filePath |-> CatFilePath(args.filePath),
                         layersToSearch |->
                             LayersToSearch(Len(img1.layers), args.Layer),
                         k |-> 1]
    /\ UNCHANGED <<img1, img2, args, stdout>>

\* one iteration of RunCat's loop over layersToSearch
CatSearchLayer ==
    /\ pc = "search"
    /\ local.k <= Len(local.layersToSearch)
    /\ LET layerIdx == local.layersToSearch[local.k]
           r == extractFileFromLayer(img1.layers[layerIdx + 1], local.filePath)
       IN /\ io' = io \o Tagged(r.calls, layerIdx)
          /\ IF r.err # None
             THEN /\ err' = <<"failed to read layer", layerIdx + 1, r.err>>
                  /\ pc' = "done"
                  /\ UNCHANGED <<stdout, local>>
             ELSE IF r.found
             THEN /\ stdout' = Append(stdout, r.content)
                  /\ pc' = "done"
                  /\ UNCHANGED <<err, local>>
             ELSE /\ local' = [local EXCEPT !.k = @ + 1]
                  /\ UNCHANGED <<stdout, err, pc>>
    /\ UNCHANGED <<img1, img2, args>>

\* RunCat after the loop found the file in no layer
CatNotFound ==
    /\ pc = "search"
    /\ local.k > Len(local.layersToSearch)
    /\ err' = <<"file not found", local.filePath>>
    /\ pc' = "done"
    /\ UNCHANGED <<img1, img2, args, local, stdout, io>>

CatNext == CatStart \/ CatSearchLayer \/ CatNotFound

SpecCat == CatInit /\ [][CatNext]_vars

-----------------------------------------------------------------------------
(* ls: RunLs, extractFilesFromLayer, formatFileMode and filterFiles         *)
(* (internal/command/ls.go).                                               *)

File_b == Entry(<<"b">>, TypeReg, 493, 5, "b", "")
Dir_d == Entry(<<"d", "/">>, TypeDir, 493, 0, "", "")

LsEntries == {File_da_v1, File_b, Wh_da, Dir_d, BadHeader}

\* rwx of one 3-bit permission
formatPermission(perm) ==
    <<IF (perm \div 4) % 2 = 1 THEN "r" ELSE "-",
      IF (perm \div 2) % 2 = 1 THEN "w" ELSE "-",
      IF perm % 2 = 1 THEN "x" ELSE "-">>

\* the ls-style mode string of a tar type and mode
formatFileMode(typeflag, mode) ==
    LET typeChar == CASE typeflag = TypeDir -> "d"
                      [] typeflag = TypeSymlink -> "l"
                      [] OTHER -> "-"
    IN <<typeChar>> \o formatPermission((mode \div 64) % 8)
                   \o formatPermission((mode \div 8) % 8)
                   \o formatPermission(mode % 8)

\* a plausible slip: the marker prefix looked for on the whole archive name
LsSkipsWholeName(header) == HasPrefix(header.Name, WhPrefix)

\* extractFilesFromLayer leaves this record out of the listing
LsSkips(header) == HasPrefix(Base(header.Name), WhPrefix)

\* the loop of extractFilesFromLayer from record i on, files collected so far
RECURSIVE ScanFiles(_, _, _)
ScanFiles(entries, i, files) ==
    IF i > Len(entries) THEN [files |-> files, err |-> None]
    ELSE LET header == entries[i]
         IN IF header.Bad = "header"
            THEN [files |-> None, err |-> <<"failed to read tar header">>]
            ELSE IF LsSkips(header)
            THEN ScanFiles(entries, i + 1, files)
            ELSE ScanFiles(entries, i + 1,
                     Append(files,
                         [Mode |-> formatFileMode(header.Typeflag, header.Mode),
                          Size |-> header.Size,
                          Path |-> NormPath(header.Name)]))

extractFilesFromLayer(layer) ==
    IF layer.openErr
    THEN [files |-> None, err |-> <<"failed to get uncompressed layer">>,
          calls |-> <<"Uncompressed">>]
    ELSE LET r == ScanFiles(layer.entries, 1, <<>>)
         IN [files |-> r.files, err |-> r.err,
             calls |-> <<"Uncompressed", "Close">>]

\* strings.Contains
Contains(s, sub) ==
    \E i \in 1..(Len(s) + 1) :
        /\ i + Len(sub) - 1 <= Len(s)
        /\ SubSeq(s, i, i + Len(sub) - 1) = sub

\* strings.ContainsAny
ContainsAny(s, chars) == \E i \in 1..Len(s) : s[i] \in chars

\* doublestar.Match for patterns of literals, ?, * and whole-segment **
RECURSIVE Match(_, _)
Match(pattern, name) ==
    IF Len(pattern) = 0 THEN Len(name) = 0
    ELSE IF HasPrefix(pattern, <<"*", "*", "/">>)
    THEN LET rest == SubSeq(pattern, 4, Len(pattern))
         IN \/ Match(rest, name)
            \/ \E i \in 1..Len(name) :
                    /\ name[i] = "/"
                    /\ Match(rest, SubSeq(name, i + 1, Len(name)))
    ELSE IF pattern = <<"*", "*">> THEN TRUE
    ELSE IF pattern[1] = "*"
    THEN \E k \in 0..Len(name) :
            /\ \A j \in 1..k : name[j] # "/"
            /\ Match(Tail(pattern), SubSeq(name, k + 1, Len(name)))
    ELSE IF pattern[1] = "?"
    THEN /\ Len(name) > 0
         /\ name[1] # "/"
         /\ Match(Tail(pattern), Tail(name))
    ELSE /\ Len(name) > 0
         /\ name[1] = pattern[1]
         /\ Match(Tail(pattern), Tail(name))

\* a plausible slip: the implicit "**/" left off a pattern without "/"
FilterMatchesUnexpanded(path, pattern) ==
    IF ContainsAny(pattern, {"*", "?", "["})
    THEN \/ Match(pattern, TrimPrefix(path, <<"/">>))
         \/ HasPrefix(pattern, <<"/">>) /\ Match(pattern, path)
    ELSE Contains(path, pattern)

\* whether filterFiles keeps a file of this path
FilterMatches(path, pattern) ==
    IF ContainsAny(pattern, {"*", "?", "["})
    THEN LET pathForMatch == TrimPrefix(path, <<"/">>)
         IN IF ~Contains(pattern, <<"/">>)
            THEN Match(<<"*", "*", "/">> \o pattern, pathForMatch)
            ELSE \/ Match(pattern, pathForMatch)
                 \/ HasPrefix(pattern, <<"/">>) /\ Match(pattern, path)
    ELSE Contains(path, pattern)

filterFiles(files, pattern) ==
    SelectSeq(files, LAMBDA file : FilterMatches(file.Path, pattern))

\* oci.FormatBytes: the number printed (in tenths above 1023 bytes) and the unit
RECURSIVE FormatBytesLoop(_, _, _)
FormatBytesLoop(n, div, exp) ==
    IF n >= 1024 THEN FormatBytesLoop(n \div 1024, div * 1024, exp + 1)
    ELSE [div |-> div, exp |-> exp]

FormatBytes(bytes) ==
    IF bytes < 1024 THEN <<bytes, "B">>
    ELSE LET r == FormatBytesLoop(bytes \div 1024, 1024, 0)
         IN <<(bytes * 10 + r.div \div 2) \div r.div,
              <<"KB", "MB", "GB", "TB", "PB", "EB">>[r.exp + 1]>>

\* a plausible slip: the default view always reading the base layer
LsLayerIdxBase(n, layer) == 0

\* layerIdx of RunLs (0-based) for an image of n layers, once the requested
\* layer is known to exist
LsLayerIdx(n, layer) == IF layer > 0 THEN layer - 1 ELSE n - 1

LsFilters == {<<>>, <<"b">>}

LsInit ==
    /\ \/ img1 = Unavailable
       \/ \E n \in 0..MaxLayers, t \in 0..MaxTotal :
            \E sizes \in [1..n -> 0..t] :
                /\ SumSeq(sizes) = t
                /\ \E es \in [1..t -> LsEntries \cup {OpenFails}] :
                        img1 = Image(Cut(es, sizes), "c1")
    /\ img2 = Unused
    /\ args \in {[Layer |-> l, Filter |-> f] :
                    l \in -1..(LayerCount(img1) + 1), f \in LsFilters}
    /\ pc = "start"
    /\ local = Unused
    /\ stdout = <<>>
    /\ err = None
    /\ io = <<>>

\* the table RunLs prints
LsTable(files) ==
    <<<<"Mode", "Size", "Path">>>>
        \o [k \in 1..Len(files) |->
               <<files[k].Mode, FormatBytes(files[k].Size), files[k].Path>>]

\* a plausible slip: the pattern left out of the message
NoFilesMessageWithoutPattern(filter) == <<<<"No files found">>>>

\* what RunLs prints when no file is left to list
NoFilesMessage(filter) ==
    IF filter # <<>>
    THEN <<<<"No files matching pattern", filter>>>>
    ELSE <<<<"No files found">>>>

RunLs ==
    /\ pc = "start"
    /\ pc' = "done"
    /\ IF img1 = Unavailable
       THEN /\ err' = <<"failed to fetch image">>
            /\ io' = <<[call |-> "FetchImage", layer |-> -1]>>
            /\ UNCHANGED <<stdout, local>>
       ELSE LET n == Len(img1.layers)
                layerIdx == LsLayerIdx(n, args.Layer)
                called == <<[call |-> "FetchImage", layer |-> -1],
                            [call |-> "Layers", layer |-> -1]>>
            IN IF args.Layer > 0 /\ args.Layer > n
               THEN /\ err' = <<"layer does not exist", args.Layer, n>>
                    /\ io' = called
                    /\ UNCHANGED <<stdout, local>>
               ELSE IF layerIdx < 0 \/ layerIdx >= n
               THEN \* layers[layerIdx] is out of range: the Go runtime panics
                    /\ err' = <<"panic: index out of range", layerIdx, n>>
                    /\ io' = called
                    /\ UNCHANGED <<stdout, local>>
               ELSE LET r == extractFilesFromLayer(img1.layers[layerIdx + 1])
                        files == IF args.Filter # <<>>
                                 THEN filterFiles(r.files, args.Filter)
                                 ELSE r.files
                    IN /\ io' = called \o Tagged(r.calls, layerIdx)
                       /\ IF r.err # None
                          THEN /\ err' = <<"failed to extract files from layer",
                                           layerIdx + 1, r.err>>
                               /\ UNCHANGED <<stdout, local>>
                          ELSE /\ err' = None
                               /\ local' = [layerIdx |-> layerIdx, files |-> files]
                               /\ stdout' =
                                    IF Len(files) = 0
                                    THEN NoFilesMessage(args.Filter)
                                    ELSE LsTable(files)
    /\ UNCHANGED <<img1, img2, args>>

LsNext == RunLs

SpecLs == LsInit /\ [][LsNext]_vars

-----------------------------------------------------------------------------
(* compare: compareFiles (compare.go, src/unnamed/part_002).               *)

\* the byte of a character
Byte(c) ==
    CASE c = "." -> 46 [] c = "/" -> 47 [] c = "a" -> 97 [] c = "b" -> 98
      [] c = "c" -> 99 [] c = "d" -> 100 [] c = "h" -> 104 [] c = "w" -> 119

\* a < b for Go strings: bytewise lexicographic
RECURSIVE StrLess(_, _)
StrLess(a, b) ==
    IF Len(b) = 0 THEN FALSE
    ELSE IF Len(a) = 0 THEN TRUE
    ELSE IF Byte(a[1]) # Byte(b[1]) THEN Byte(a[1]) < Byte(b[1])
    ELSE StrLess(Tail(a), Tail(b))

RECURSIVE InsertSorted(_, _)
InsertSorted(x, sorted) ==
    IF Len(sorted) = 0 THEN <<x>>
    ELSE IF StrLess(x, sorted[1]) THEN <<x>> \o sorted
    ELSE <<sorted[1]>> \o InsertSorted(x, Tail(sorted))

\* a plausible slip: the slices returned in map-iteration order
SortStringsOmitted(s) == s

\* sort.Strings
RECURSIVE SortStrings(_)
SortStrings(s) ==
    IF Len(s) = 0 THEN <<>> ELSE InsertSorted(s[1], SortStrings(Tail(s)))

\* a plausible slip: the existence test negated
ExistsNegated(files, path) == path \notin files

\* _, exists := files[path] on a map[string]bool whose keys are files
Exists(files, path) == path \in files

\* the loop over files2, visited in the order the map iteration yields
RECURSIVE RangeFiles2(_, _, _, _)
RangeFiles2(order2, files1, added, modified) ==
    IF Len(order2) = 0 THEN [added |-> added, modified |-> modified]
    ELSE IF Exists(files1, order2[1])
    THEN RangeFiles2(Tail(order2), files1, added, Append(modified, order2[1]))
    ELSE RangeFiles2(Tail(order2), files1, Append(added, order2[1]), modified)

\* the loop over files1
RECURSIVE RangeFiles1(_, _, _)
RangeFiles1(order1, files2, removed) ==
    IF Len(order1) = 0 THEN removed
    ELSE IF ~Exists(files2, order1[1])
    THEN RangeFiles1(Tail(order1), files2, Append(removed, order1[1]))
    ELSE RangeFiles1(Tail(order1), files2, removed)

\* compareFiles; order1 and order2 are the orders in which the two range
\* loops happen to visit the maps' keys
compareFiles(files1, files2, order1, order2) ==
    LET r2 == RangeFiles2(order2, files1, <<>>, <<>>)
        removed == RangeFiles1(order1, files2, <<>>)
    IN [added |-> SortStrings(r2.added),
        removed |-> SortStrings(removed),
        modified |-> SortStrings(r2.modified)]

\* the orders a range loop may visit the keys of a map in
IterationOrders(files) ==
    {o \in [1..Cardinality(files) -> files] :
        \A i, j \in 1..Cardinality(files) : i # j => o[i] # o[j]}

DiffPaths ==
    {<<"/", "a">>, <<"/", "a", "/", "b">>, <<"/", "a", "b">>, <<"/", "b">>,
     <<"/", "c">>}

PathSets == {S \in SUBSET DiffPaths : Cardinality(S) <= MaxFiles}

CompareFilesInit ==
    /\ img1 = Unused
    /\ img2 = Unused
    /\ args \in [files1 : PathSets, files2 : PathSets]
    /\ pc = "start"
    /\ local = Unused
    /\ stdout = <<>>
    /\ err = None
    /\ io = <<>>

CallCompareFiles ==
    /\ pc = "start"
    /\ \E order1 \in IterationOrders(args.files1),
          order2 \in IterationOrders(args.files2) :
            local' = [order1 |-> order1, order2 |-> order2,
                      diff |-> compareFiles(args.files1, args.files2,
                                            order1, order2)]
    /\ pc' = "done"
    /\ UNCHANGED <<img1, img2, args, stdout, err, io>>

CompareFilesNext == CallCompareFiles

SpecCompareFiles == CompareFilesInit /\ [][CompareFilesNext]_vars

-----------------------------------------------------------------------------
(* compare: RunCompare, extractFileListFromLayers and getImageSize          *)
(* (compare.go, src/unnamed/part_002).                                     *)

File_a == Entry(<<"a">>, TypeReg, 420, 1, "a", "")

CmpEntries == {File_a, File_b, BadHeader}

\* layer.Digest(): the content address of the layer's archive
LayerDigest(layer) == <<"sha256", layer.entries>>

LayerDigests(layers) == {LayerDigest(layers[k]) : k \in 1..Len(layers)}

\* img.Digest(): the manifest digest, which covers the config and the layers
ImageDigest(img) ==
    <<"sha256", img.config,
      [k \in 1..Len(img.layers) |-> LayerDigest(img.layers[k])]>>

\* layer.Size()
LayerSize(layer) ==
    SumSeq([k \in 1..Len(layer.entries) |-> layer.entries[k].Size])

\* the loop of extractFileListFromLayers over the records of one layer
RECURSIVE ScanFileList(_, _, _)
ScanFileList(entries, i, files) ==
    IF i > Len(entries) THEN [files |-> files, err |-> None]
    ELSE LET header == entries[i]
             path == NormPath(header.Name)
         IN IF header.Bad = "header"
            THEN [files |-> {}, err |-> <<"failed to read tar header">>]
            ELSE IF header.Typeflag = TypeDir
            THEN ScanFileList(entries, i + 1, files)
            ELSE IF HasPrefix(header.Name, WhPrefix)
            THEN ScanFileList(entries, i + 1, files \ {path})
            ELSE IF header.Typeflag = TypeReg
            THEN IF header.Bad = "content"
                 THEN [files |-> {}, err |-> <<"failed to skip file contents">>]
                 ELSE ScanFileList(entries, i + 1, files \cup {path})
            ELSE ScanFileList(entries, i + 1, files)

\* a plausible slip: no layer taken for shared
IsSharedNever(otherLayerDigests, digestStr) == FALSE

\* otherLayerDigests[digestStr]
IsShared(otherLayerDigests, digestStr) == digestStr \in otherLayerDigests

\* a plausible slip: a layer that fails is left out and the fold goes on
RECURSIVE ExtractLoopBestEffort(_, _, _, _, _)
ExtractLoopBestEffort(layers, i, otherLayerDigests, files, calls) ==
    IF i > Len(layers) THEN [files |-> files, err |-> None, calls |-> calls]
    ELSE IF IsShared(otherLayerDigests, LayerDigest(layers[i]))
    THEN ExtractLoopBestEffort(layers, i + 1, otherLayerDigests, files, calls)
    ELSE IF layers[i].openErr
    THEN ExtractLoopBestEffort(layers, i + 1, otherLayerDigests, files,
             calls \o Tagged(<<"Uncompressed">>, i - 1))
    ELSE LET r == ScanFileList(layers[i].entries, 1, files)
             made == calls \o Tagged(<<"Uncompressed", "Close">>, i - 1)
         IN IF r.err # None
            THEN ExtractLoopBestEffort(layers, i + 1, otherLayerDigests, files, made)
            ELSE ExtractLoopBestEffort(layers, i + 1, otherLayerDigests, r.files,
                                       made)

\* a plausible slip: rc.Close() left out before the error returns
RECURSIVE ExtractLoopLeaky(_, _, _, _, _)
ExtractLoopLeaky(layers, i, otherLayerDigests, files, calls) ==
    IF i > Len(layers) THEN [files |-> files, err |-> None, calls |-> calls]
    ELSE IF IsShared(otherLayerDigests, LayerDigest(layers[i]))
    THEN ExtractLoopLeaky(layers, i + 1, otherLayerDigests, files, calls)
    ELSE IF layers[i].openErr
    THEN [files |-> {}, err |-> <<"failed to get uncompressed layer">>,
          calls |-> calls \o Tagged(<<"Uncompressed">>, i - 1)]
    ELSE LET r == ScanFileList(layers[i].entries, 1, files)
         IN IF r.err # None
            THEN [files |-> {}, err |-> r.err,
                  calls |-> calls \o Tagged(<<"Uncompressed">>, i - 1)]
            ELSE ExtractLoopLeaky(layers, i + 1, otherLayerDigests, r.files,
                     calls \o Tagged(<<"Uncompressed", "Close">>, i - 1))

\* the loop of extractFileListFromLayers over the layers, from layer i
\* (1-based) on; calls are the stream calls made, with 0-based layer indices
RECURSIVE ExtractLoop(_, _, _, _, _)
ExtractLoop(layers, i, otherLayerDigests, files, calls) ==
    IF i > Len(layers) THEN [files |-> files, err |-> None, calls |-> calls]
    ELSE IF IsShared(otherLayerDigests, LayerDigest(layers[i]))
    THEN ExtractLoop(layers, i + 1, otherLayerDigests, files, calls)
    ELSE IF layers[i].openErr
    THEN [files |-> {}, err |-> <<"failed to get uncompressed layer">>,
          calls |-> calls \o Tagged(<<"Uncompressed">>, i - 1)]
    ELSE LET r == ScanFileList(layers[i].entries, 1, files)
             made == calls \o Tagged(<<"Uncompressed", "Close">>, i - 1)
         IN IF r.err # None
            THEN [files |-> {}, err |-> r.err, calls |-> made]
            ELSE ExtractLoop(layers, i + 1, otherLayerDigests, r.files, made)

\* (files, error): the paths of the regular files of the layers whose digest
\* is not in otherLayerDigests
extractFileListFromLayers(layers, otherLayerDigests) ==
    ExtractLoop(layers, 1, otherLayerDigests, {}, <<>>)

\* getImageSize
getImageSize(img) ==
    SumSeq([k \in 1..Len(img.layers) |-> LayerSize(img.layers[k])])

\* an image reference: repository and tag; BadRef does not parse
Ref(repo, tag) == [repo |-> repo, tag |-> tag]
BadRef == [bad |-> TRUE]

RefPairs ==
    {<<Ref("r1", "t1"), Ref("r1", "t2")>>, <<Ref("r1", "t1"), Ref("r1", "t1")>>,
     <<Ref("r1", "t1"), Ref("r2", "t1")>>, <<BadRef, Ref("r1", "t1")>>,
     <<Ref("r1", "t1"), BadRef>>}

\* a plausible slip: the repository check left out
SameRepositoryUnchecked(ref1, ref2) == TRUE

\* repo1 == repo2, of ref.Context().Name()
SameRepository(ref1, ref2) == ref1.repo = ref2.repo

\* a plausible slip: the identical-digest shortcut left out
SameDigestNever(image1, image2) == FALSE

\* digest1.String() == digest2.String()
SameDigest(image1, image2) == ImageDigest(image1) = ImageDigest(image2)

\* the calls of one image, tagged with the image's number
OfImage(calls, image) ==
    [k \in 1..Len(calls) |->
        [call |-> calls[k].call, layer |-> calls[k].layer, image |-> image]]

CompareInit ==
    /\ \E pair \in RefPairs : args = [image1Ref |-> pair[1], image2Ref |-> pair[2]]
    /\ \/ /\ img1 \in {Unavailable, Image(<<>>, "c1")}
          /\ img2 = Unavailable
       \/ \E n1, n2 \in 0..CmpMaxLayers, t \in 0..CmpMaxTotal :
            \E sizes \in [1..(n1 + n2) -> 0..t] :
                /\ SumSeq(sizes) = t
                /\ \E es \in [1..t -> CmpEntries \cup {OpenFails}],
                      config2 \in {"c1", "c2"} :
                        /\ img1 = Image(SubSeq(Cut(es, sizes), 1, n1), "c1")
                        /\ img2 = Image(SubSeq(Cut(es, sizes), n1 + 1, n1 + n2),
                                        config2)
    /\ args.image1Ref = args.image2Ref => img1 = img2
    /\ pc = "start"
    /\ local = Unused
    /\ stdout = <<>>
    /\ err = None
    /\ io = <<>>

\* RunCompare up to the extraction of the first image's files
CompareStart ==
    /\ pc = "start"
    /\ IF args.image1Ref = BadRef
       THEN /\ err' = <<"failed to parse first image reference">>
            /\ pc' = "done"
            /\ UNCHANGED <<io, stdout, local>>
       ELSE IF args.image2Ref = BadRef
       THEN /\ err' = <<"failed to parse second image reference">>
            /\ pc' = "done"
            /\ UNCHANGED <<io, stdout, local>>
       ELSE IF ~SameRepository(args.image1Ref, args.image2Ref)
       THEN /\ err' = <<"images must be from the same repository",
                        args.image1Ref.repo, args.image2Ref.repo>>
            /\ pc' = "done"
            /\ UNCHANGED <<io, stdout, local>>
       ELSE IF img1 = Unavailable
       THEN /\ err' = <<"failed to fetch first image">>
            /\ io' = <<[call |-> "FetchImage", layer |-> -1, image |-> 1]>>
            /\ pc' = "done"
            /\ UNCHANGED <<stdout, local>>
       ELSE IF img2 = Unavailable
       THEN /\ err' = <<"failed to fetch second image">>
            /\ io' = <<[call |-> "FetchImage", layer |-> -1, image |-> 1],
                       [call |-> "FetchImage", layer |-> -1, image |-> 2]>>
            /\ pc' = "done"
            /\ UNCHANGED <<stdout, local>>
       ELSE LET fetched == <<[call |-> "FetchImage", layer |-> -1, image |-> 1],
                             [call |-> "FetchImage", layer |-> -1, image |-> 2],
                             [call |-> "Digest", layer |-> -1, image |-> 1],
                             [call |-> "Digest", layer |-> -1, image |-> 2]>>
            IN IF SameDigest(img1, img2)
               THEN /\ stdout' = <<<<"Images are identical">>>>
                    /\ io' = fetched
                    /\ pc' = "done"
                    /\ UNCHANGED <<err, local>>
               ELSE /\ io' = fetched
                           \o <<[call |-> "Layers", layer |-> -1, image |-> 1],
                                [call |-> "Layers", layer |-> -1, image |-> 2]>>
                    /\ local' = [layerDigests1 |-> LayerDigests(img1.layers),
                                 layerDigests2 |-> LayerDigests(img2.layers)]
                    /\ pc' = "extract1"
                    /\ UNCHANGED <<err, stdout>>
    /\ UNCHANGED <<img1, img2, args>>

\* files1, err := extractFileListFromLayers(layers1, layerDigests2)
CompareExtract1 ==
    /\ pc = "extract1"
    /\ LET r == extractFileListFromLayers(img1.layers, local.layerDigests2)
       IN /\ io' = io \o OfImage(r.calls, 1)
          /\ IF r.err # None
             THEN /\ err' = <<"failed to extract files from first image", r.err>>
                  /\ pc' = "done"
                  /\ UNCHANGED local
             ELSE /\ local' = [layerDigests1 |-> local.layerDigests1,
                               layerDigests2 |-> local.layerDigests2,
                               files1 |-> r.files]
                  /\ pc' = "extract2"
                  /\ UNCHANGED err
    /\ UNCHANGED <<img1, img2, args, stdout>>

\* files2, err := extractFileListFromLayers(layers2, layerDigests1)
CompareExtract2 ==
    /\ pc = "extract2"
    /\ LET r == extractFileListFromLayers(img2.layers, local.layerDigests1)
       IN /\ io' = io \o OfImage(r.calls, 2)
          /\ IF r.err # None
             THEN /\ err' = <<"failed to extract files from second image", r.err>>
                  /\ pc' = "done"
                  /\ UNCHANGED local
             ELSE /\ local' = [layerDigests1 |-> local.layerDigests1,
                               layerDigests2 |-> local.layerDigests2,
                               files1 |-> local.files1,
                               files2 |-> r.files]
                  /\ pc' = "report"
                  /\ UNCHANGED err
    /\ UNCHANGED <<img1, img2, args, stdout>>

\* the lines printed for one non-empty list of paths
Section(title, paths) ==
    IF Len(paths) > 0
    THEN <<<<title>>>> \o [k \in 1..Len(paths) |-> <<"  ", paths[k]>>]
    ELSE <<>>

\* the rest of RunCompare: the sizes, the summary and the three lists
CompareReport ==
    /\ pc = "report"
    /\ \E order1 \in IterationOrders(local.files1),
          order2 \in IterationOrders(local.files2) :
          LET diff == compareFiles(local.files1, local.files2, order1, order2)
          IN stdout' =
                <<<<"Image 1:", args.image1Ref>>,
                  <<"  Layers:", Len(img1.layers)>>,
                  <<"  Size:", FormatBytes(getImageSize(img1))>>,
                  <<"Image 2:", args.image2Ref>>,
                  <<"  Layers:", Len(img2.layers)>>,
                  <<"  Size:", FormatBytes(getImageSize(img2))>>>>
                \o Section("Added:", diff.added)
                \o Section("Removed:", diff.removed)
                \o Section("Modified:", diff.modified)
                \o (IF /\ Len(diff.added) = 0
                       /\ Len(diff.removed) = 0
                       /\ Len(diff.modified) = 0
                    THEN <<<<"No file changes detected">>>>
                    ELSE <<>>)
    /\ pc' = "done"
    /\ UNCHANGED <<img1, img2, args, local, err, io>>

CompareNext ==
    CompareStart \/ CompareExtract1 \/ CompareExtract2 \/ CompareReport

SpecCompare == CompareInit /\ [][CompareNext]_vars

-----------------------------------------------------------------------------
(* extractFileListFromLayers on its own, over layers that carry deletion    *)
(* markers, directories and links.                                          *)

Wh_a == Entry(<<".", "w", "h", ".", "a">>, TypeReg, 0, 0, "", "")

ExtractEntries == {File_a, File_da_v1, Wh_a, Wh_da, Dir_d, Link_da, BadHeader}

ExtractInit ==
    /\ \E n \in 0..MaxLayers, t \in 0..MaxTotal :
         \E sizes \in [1..n -> 0..t] :
            /\ SumSeq(sizes) = t
            /\ \E es \in [1..t -> ExtractEntries \cup {OpenFails}] :
                    img1 = Image(Cut(es, sizes), "c1")
    /\ img2 = Unused
    /\ \E other \in {{}} \cup {{LayerDigest(img1.layers[k])} :
                                    k \in 1..Len(img1.layers)} :
         args = [otherLayerDigests |-> other]
    /\ pc = "start"
    /\ local = Unused
    /\ stdout = <<>>
    /\ err = None
    /\ io = <<>>

\* files, err := extractFileListFromLayers(layers, otherLayerDigests)
CallExtractFileList ==
    /\ pc = "start"
    /\ LET r == extractFileListFromLayers(img1.layers, args.otherLayerDigests)
       IN /\ local' = [files |-> r.files]
          /\ err' = r.err
          /\ io' = r.calls
    /\ pc' = "done"
    /\ UNCHANGED <<img1, img2, args, stdout>>

ExtractNext == CallExtractFileList

SpecExtract == ExtractInit /\ [][ExtractNext]_vars

-----------------------------------------------------------------------------
(* extractFileFromLayer on its own: one layer, queried with a path written  *)
(* without and with a leading slash.                                        *)

\* query paths without a leading slash
QueryPaths ==
    {<<"d", "/", "a">>, <<"a">>, <<"d", "/", ".", "w", "h", ".", "a">>, <<>>}

ExtractFileInit ==
    /\ \E t \in 0..MaxTotal :
         \E es \in [1..t -> CatEntries \cup {OpenFails}] :
            img1 = Image(<<MkLayer(es)>>, "c1")
    /\ img2 = Unused
    /\ \E p \in QueryPaths : args = [targetPath |-> p]
    /\ pc = "start"
    /\ local = Unused
    /\ stdout = <<>>
    /\ err = None
    /\ io = <<>>

\* extractFileFromLayer(layer, p) and extractFileFromLayer(layer, "/" + p)
CallExtractFile ==
    /\ pc = "start"
    /\ local' = [plain |-> extractFileFromLayer(img1.layers[1], args.targetPath),
                 slashed |-> extractFileFromLayer(img1.layers[1],
                                                  <<"/">> \o args.targetPath)]
    /\ pc' = "done"
    /\ UNCHANGED <<img1, img2, args, stdout, err, io>>

ExtractFileNext == CallExtractFile

SpecExtractFile == ExtractFileInit /\ [][ExtractFileNext]_vars

-----------------------------------------------------------------------------
(* filterFiles on its own, over listings of configuration files.            *)

Path_nginx_conf ==
    <<"/", "e", "t", "c", "/", "n", "g", "i", "n", "x", "/", "n", "g",
    "i", "n", "x", ".", "c", "o", "n", "f">>
Path_mime_types ==
    <<"/", "e", "t", "c", "/", "n", "g", "i", "n", "x", "/", "m", "i",
    "m", "e", ".", "t", "y", "p", "e", "s">>
Path_other_conf ==
    <<"/", "e", "t", "c", "/", "o", "t", "h", "e", "r", "/", "n", "g",
    "i", "n", "x", ".", "c", "o", "n", "f">>
Path_top_conf ==
    <<"/", "n", "g", "i", "n", "x", ".", "c", "o", "n", "f">>
Path_etc_dir ==
    <<"/", "e", "t", "c", "/">>

Pat_conf ==
    <<"*", ".", "c", "o", "n", "f">>
Pat_nginx_conf ==
    <<"e", "t", "c", "/", "n", "g", "i", "n", "x", "/", "*", ".", "c",
    "o", "n", "f">>
Pat_abs_nginx_conf ==
    <<"/", "e", "t", "c", "/", "n", "g", "i", "n", "x", "/", "*", ".",
    "c", "o", "n", "f">>
Pat_any_nginx_conf ==
    <<"*", "*", "/", "n", "g", "i", "n", "x", "/", "*", ".", "c", "o",
    "n", "f">>
Pat_q ==
    <<"?", "g", "i", "n", "x", ".", "c", "o", "n", "f">>
Pat_star ==
    <<"*">>
Pat_substring ==
    <<"n", "g", "i", "n", "x">>

FilterPaths ==
    {Path_nginx_conf, Path_mime_types, Path_other_conf, Path_top_conf,
     Path_etc_dir}

FilterPatterns ==
    {Pat_conf, Pat_nginx_conf, Pat_abs_nginx_conf, Pat_any_nginx_conf, Pat_q,
     Pat_star, Pat_substring}

\* the FileInfo of a regular file, or of a directory when the path ends in "/"
FileAt(path) ==
    [Mode |-> IF path[Len(path)] = "/" THEN formatFileMode(TypeDir, 493)
              ELSE formatFileMode(TypeReg, 420),
     Size |-> 0,
     Path |-> path]

FilterFilesInit ==
    /\ img1 = Unused
    /\ img2 = Unused
    /\ \E t \in 0..MaxFilterFiles :
         \E paths \in [1..t -> FilterPaths], pattern \in FilterPatterns :
            args = [files |-> [k \in 1..t |-> FileAt(paths[k])],
                    pattern |-> pattern]
    /\ pc = "start"
    /\ local = Unused
    /\ stdout = <<>>
    /\ err = None
    /\ io = <<>>

\* files = filterFiles(files, opts.Filter)
CallFilterFiles ==
    /\ pc = "start"
    /\ local' = [filtered |-> filterFiles(args.files, args.pattern)]
    /\ pc' = "done"
    /\ UNCHANGED <<img1, img2, args, stdout, err, io>>

FilterFilesNext == CallFilterFiles

SpecFilterFiles == FilterFilesInit /\ [][FilterFilesNext]_vars

-----------------------------------------------------------------------------
(* tree: printTreeSimple and printTreeDir (tree.go).                        *)

TrimSuffix(s, suffix) ==
    IF /\ Len(s) >= Len(suffix)
       /\ SubSeq(s, Len(s) - Len(suffix) + 1, Len(s)) = suffix
    THEN SubSeq(s, 1, Len(s) - Len(suffix))
    ELSE s

RECURSIVE StripLeadingSlashes(_)
StripLeadingSlashes(s) ==
    IF Len(s) > 0 /\ s[1] = "/" THEN StripLeadingSlashes(Tail(s)) ELSE s

\* strings.Trim(s, "/")
TrimSlashes(s) == StripTrailingSlashes(StripLeadingSlashes(s))

\* strings.Count(s, "/")
CountSlashes(s) == Cardinality({k \in 1..Len(s) : s[k] = "/"})

\* filepath.Dir, for paths without "." and ".." elements and without doubled
\* separators: the text before the last separator, trailing separators
\* removed; "." when that is empty, "/" when it is separators only
Dir(path) ==
    LET d == SubSeq(path, 1, LastSlash(path))
    IN IF d = <<>> THEN <<".">>
       ELSE IF StripTrailingSlashes(d) = <<>> THEN <<"/">>
       ELSE StripTrailingSlashes(d)

\* rootPath as printTreeSimple uses it
TreeRoot(rootPath) ==
    IF TrimSuffix(rootPath, <<"/">>) = <<>> THEN <<"/">>
    ELSE TrimSuffix(rootPath, <<"/">>)

\* a plausible slip: the prefix test left out
UnderRootAlways(path, rootPath) == TRUE

\* the path-prefix test of printTreeSimple: the entry is not skipped
UnderRoot(path, rootPath) == ~(~HasPrefix(path, rootPath) /\ path # rootPath)

\* relPath of printTreeSimple
RelPath(path, rootPath) ==
    TrimSuffix(TrimPrefix(TrimPrefix(path, rootPath), <<"/">>), <<"/">>)

\* a plausible slip: hidden entries never skipped
HiddenSkippedNever(baseName, all) == FALSE

\* the hidden-file test of printTreeSimple: the entry is skipped
HiddenSkipped(baseName, all) ==
    /\ ~all
    /\ HasPrefix(baseName, <<".">>)
    /\ baseName # <<".">>
    /\ baseName # <<".", ".">>

\* a plausible slip: the depth of an entry never over the limit
TooDeepNever(depth, level) == FALSE

\* the depth test of printTreeSimple: the entry is skipped
TooDeep(depth, level) == level > 0 /\ depth > level

\* whether the filter loop of printTreeSimple puts the file into dirMap
TreeKeeps(file, rootPath, opts) ==
    LET relPath == RelPath(file.Path, rootPath)
        cleanPath == TrimSuffix(file.Path, <<"/">>)
        baseName == Base(cleanPath)
        isDir == HasPrefix(file.Mode, <<"d">>)
    IN /\ UnderRoot(file.Path, rootPath)
       /\ relPath # <<>>
       /\ ~HiddenSkipped(baseName, opts.All)
       /\ ~(opts.DirsOnly /\ ~isDir)
       /\ ~(opts.Exclude # <<>> /\ (\/ Match(opts.Exclude, baseName)
                                    \/ Match(opts.Exclude, cleanPath)))
       /\ ~TooDeep(CountSlashes(relPath) + 1, opts.Level)

\* a plausible slip: every entry filed under "/" whatever its directory
DirEntryTopLevel(file) ==
    LET cleanPath == TrimSuffix(file.Path, <<"/">>)
    IN [name |-> Base(cleanPath),
        isDir |-> HasPrefix(file.Mode, <<"d">>),
        path |-> cleanPath,
        size |-> file.Size,
        dir |-> <<"/">>]

\* the dirEntry of a file, with the dirMap key it is appended under
DirEntry(file) ==
    LET cleanPath == TrimSuffix(file.Path, <<"/">>)
    IN [name |-> Base(cleanPath),
        isDir |-> HasPrefix(file.Mode, <<"d">>),
        path |-> cleanPath,
        size |-> file.Size,
        dir |-> IF Dir(cleanPath) = <<".">> THEN <<"/">> ELSE Dir(cleanPath)]

\* the less function handed to sort.Slice
EntryLess(a, b, dirsFirst) ==
    IF dirsFirst /\ a.isDir # b.isDir THEN a.isDir ELSE StrLess(a.name, b.name)

RECURSIVE InsertEntry(_, _, _)
InsertEntry(x, sorted, dirsFirst) ==
    IF Len(sorted) = 0 THEN <<x>>
    ELSE IF EntryLess(x, sorted[1], dirsFirst) THEN <<x>> \o sorted
    ELSE <<sorted[1]>> \o InsertEntry(x, Tail(sorted), dirsFirst)

\* sort.Slice over the entries of one directory; entries that compare equal
\* keep their order of insertion
RECURSIVE SortEntries(_, _)
SortEntries(entries, dirsFirst) ==
    IF Len(entries) = 0 THEN <<>>
    ELSE InsertEntry(entries[Len(entries)],
                     SortEntries(SubSeq(entries, 1, Len(entries) - 1), dirsFirst),
                     dirsFirst)

\* dirMap[dir] after sorting, for the kept entries in file order
DirMapAt(kept, dir, dirsFirst) ==
    SortEntries(SelectSeq(kept, LAMBDA e : e.dir = dir), dirsFirst)

\* printTreeDir: the lines printed for the directory dirPath and below it
RECURSIVE printTreeDir(_, _, _, _, _)
RECURSIVE PrintEntries(_, _, _, _, _, _)
PrintEntries(kept, entries, i, prefix, opts, currentDepth) ==
    IF i > Len(entries) THEN <<>>
    ELSE LET entry == entries[i]
             isLast == i = Len(entries)
             line == [prefix |-> prefix,
                      connector |-> IF isLast THEN "+-- " ELSE "|-- ",
                      size |-> IF opts.Human THEN FormatBytes(entry.size) ELSE None,
                      name |-> IF entry.isDir THEN entry.name \o <<"/">>
                               ELSE entry.name,
                      path |-> entry.path]
             below == IF entry.isDir
                      THEN printTreeDir(kept, entry.path,
                               Append(prefix, IF isLast THEN "    " ELSE "|   "),
                               opts, currentDepth + 1)
                      ELSE <<>>
         IN <<line>> \o below
            \o PrintEntries(kept, entries, i + 1, prefix, opts, currentDepth)

printTreeDir(kept, dirPath, prefix, opts, currentDepth) ==
    IF opts.Level > 0 /\ currentDepth > opts.Level THEN <<>>
    ELSE PrintEntries(kept, DirMapAt(kept, dirPath, opts.DirsFirst), 1,
                      prefix, opts, currentDepth)

\* the entries printTreeSimple puts into dirMap, in file order
TreeKept(files, rootPath, opts) ==
    LET keptFiles == SelectSeq(files, LAMBDA file : TreeKeeps(file, rootPath, opts))
    IN [k \in 1..Len(keptFiles) |-> DirEntry(keptFiles[k])]

\* a plausible slip: the walk started at "/" whatever the root
printTreeSimpleFromTop(files, rootPath, opts) ==
    [rootName |-> <<".">>,
     lines |-> printTreeDir(TreeKept(files, TreeRoot(rootPath), opts),
                            <<"/">>, <<>>, opts, 0)]

\* printTreeSimple: the root line and the lines of the tree below it
printTreeSimple(files, rootPath, opts) ==
    LET root == TreeRoot(rootPath)
        rootName == IF Base(root) = <<"/">> \/ Base(root) = <<>>
                    THEN <<".">> ELSE Base(root)
    IN [rootName |-> rootName,
        lines |-> printTreeDir(TreeKept(files, root, opts), root, <<>>, opts, 0)]

\* the FileInfo that extractFilesFromLayer makes of a tar header
FileInfoOf(header) ==
    [Mode |-> formatFileMode(header.Typeflag, header.Mode),
     Size |-> header.Size,
     Path |-> NormPath(header.Name)]

Dir_dc == Entry(<<"d", "/", "c", "/">>, TypeDir, 493, 0, "", "")
File_dcb == Entry(<<"d", "/", "c", "/", "b">>, TypeReg, 420, 2048, "b", "")
File_d_h == Entry(<<"d", "/", ".", "h">>, TypeReg, 420, 1, "h", "")
Dir_h == Entry(<<".", "h", "/">>, TypeDir, 493, 0, "", "")
File_ha == Entry(<<".", "h", "/", "a">>, TypeReg, 420, 1, "a", "")
File_da == Entry(<<"d", "a">>, TypeReg, 420, 1, "a", "")
File_dc == Entry(<<"d", "/", "c">>, TypeReg, 420, 1, "c", "")

TreeFiles ==
    {FileInfoOf(e) : e \in {Dir_d, File_da_v1, Dir_dc, File_dcb, File_d_h,
                            Dir_h, File_ha, File_da, File_dc}}

TreeRoots == {<<"/">>, <<"/", "d">>, <<"/", ".", "h">>}

\* the TreeOptions that printTreeSimple reads
TreeOpts(level, all, dirsOnly, exclude, human, dirsFirst) ==
    [Level |-> level, All |-> all, DirsOnly |-> dirsOnly, Exclude |-> exclude,
     Human |-> human, DirsFirst |-> dirsFirst]

TreeOptions ==
    {TreeOpts(level, all, FALSE, <<>>, FALSE, TRUE) :
        level \in {-1, 1, 2}, all \in BOOLEAN}
    \cup {TreeOpts(level, all, TRUE, <<>>, TRUE, FALSE) :
        level \in {-1, 1, 2}, all \in BOOLEAN}
    \cup {TreeOpts(level, all, FALSE, <<"a">>, FALSE, FALSE) :
        level \in {-1, 1, 2}, all \in BOOLEAN}

PrintTreeInit ==
    /\ img1 = Unused
    /\ img2 = Unused
    /\ \E t \in 0..MaxTreeFiles :
         \E files \in [1..t -> TreeFiles], rootPath \in TreeRoots,
            opts \in TreeOptions :
                args = [files |-> files, rootPath |-> rootPath, opts |-> opts]
    /\ pc = "start"
    /\ local = Unused
    /\ stdout = <<>>
    /\ err = None
    /\ io = <<>>

\* printTreeSimple(cli, files, rootPath, opts); local keeps its dirMap entries
CallPrintTree ==
    /\ pc = "start"
    /\ LET out == printTreeSimple(args.files, args.rootPath, args.opts)
       IN stdout' = <<out.rootName>> \o out.lines
    /\ local' = [prefixed |->
                    SelectSeq(args.files,
                        LAMBDA file : UnderRoot(file.Path, TreeRoot(args.rootPath))),
                 kept |-> TreeKept(args.files, TreeRoot(args.rootPath), args.opts)]
    /\ pc' = "done"
    /\ UNCHANGED <<img1, img2, args, err, io>>

PrintTreeNext == CallPrintTree

SpecPrintTree == PrintTreeInit /\ [][PrintTreeNext]_vars

-----------------------------------------------------------------------------
(* oci.FetchImage, fetchFromDaemon and fetchFromRemote (fetch.go).  img1 is *)
(* what the local daemon holds for the reference, img2 what the registry    *)
(* holds.                                                                   *)

PullAlways == "always"
PullIfNotPresent == "if-not-present"
PullNever == "never"

\* an image as FetchImage returns it: where it came from and its platform
Fetched(from, platform) == [from |-> from, platform |-> platform]

\* *FetchOptions; NilOptions is the nil pointer
FetchOptions(platform, pullPolicy) ==
    [Platform |-> platform, PullPolicy |-> pullPolicy]
NilOptions == [nil |-> TRUE]

Platforms == {"linux/amd64", "linux/arm64"}

\* the platform the registry resolves an index to when none is asked for
DefaultPlatform == "linux/amd64"

\* what the daemon can hold: nothing, or an image of one platform
DaemonStates == {Unavailable} \cup {[platform |-> p] : p \in Platforms}

\* what the registry can hold: nothing (remote.Get fails), or images for a
\* set of platforms (desc.Image fails for a platform outside it)
RegistryStates ==
    {Unavailable} \cup {[platforms |-> ps] : ps \in SUBSET Platforms}

FetchArgs ==
    {[imageRef |-> r, opts |-> o] :
        r \in {"nginx:latest", "bad ref"},
        o \in {NilOptions}
              \cup {FetchOptions(pl, pp) :
                        pl \in {"", "linux/amd64", "linux/arm64", "bad"},
                        pp \in {"", PullAlways, PullIfNotPresent, PullNever}}}

\* pullPolicy of FetchImage
PolicyOf(opts) ==
    IF opts # NilOptions /\ opts.PullPolicy # "" THEN opts.PullPolicy
    ELSE PullIfNotPresent

\* a plausible slip: the daemon's miss never final
IsNeverIgnored(pullPolicy) == FALSE

\* pullPolicy == PullNever
IsNever(pullPolicy) == pullPolicy = PullNever

\* a plausible slip: the daemon consulted under every policy
SkipsDaemonNever(pullPolicy) == FALSE

\* the daemon is not consulted: pullPolicy == PullAlways
SkipsDaemon(pullPolicy) == pullPolicy = PullAlways

FetchInit ==
    /\ img1 \in DaemonStates
    /\ img2 \in RegistryStates
    /\ args \in FetchArgs
    /\ pc = "start"
    /\ local = Unused
    /\ stdout = <<>>
    /\ err = None
    /\ io = <<>>

\* FetchImage up to the call of fetchFromRemote; fetchFromDaemon asks the
\* daemon for the reference and passes no platform
FetchStart ==
    /\ pc = "start"
    /\ IF args.imageRef = "bad ref"
       THEN /\ err' = <<"failed to parse image reference">>
            /\ pc' = "done"
            /\ UNCHANGED <<io, local>>
       ELSE IF SkipsDaemon(PolicyOf(args.opts))
       THEN /\ pc' = "remote"
            /\ UNCHANGED <<io, local, err>>
       ELSE /\ io' = Append(io, [call |-> "daemon.Image", layer |-> -1])
            /\ IF img1 # Unavailable
               THEN /\ local' = [img |-> Fetched("daemon", img1.platform)]
                    /\ pc' = "done"
                    /\ UNCHANGED err
               ELSE IF IsNever(PolicyOf(args.opts))
               THEN /\ err' = <<"image not found locally and pull policy is 'never'">>
                    /\ pc' = "done"
                    /\ UNCHANGED local
               ELSE /\ pc' = "remote"
                    /\ UNCHANGED <<local, err>>
    /\ UNCHANGED <<img1, img2, args, stdout>>

\* return fetchFromRemote(ctx, ref, opts)
FetchRemote ==
    /\ pc = "remote"
    /\ pc' = "done"
    /\ LET asked == args.opts # NilOptions /\ args.opts.Platform # ""
           platform == IF asked THEN args.opts.Platform ELSE DefaultPlatform
       IN IF asked /\ args.opts.Platform \notin Platforms
          THEN /\ err' = <<"failed to parse platform">>
               /\ UNCHANGED <<io, local>>
          ELSE IF img2 = Unavailable
          THEN /\ err' = <<"failed to fetch image">>
               /\ io' = Append(io, [call |-> "remote.Get", layer |-> -1])
               /\ UNCHANGED local
          ELSE IF platform \notin img2.platforms
          THEN /\ err' = <<"failed to get image">>
               /\ io' = io \o <<[call |-> "remote.Get", layer |-> -1],
                                 [call |-> "desc.Image", layer |-> -1]>>
               /\ UNCHANGED local
          ELSE /\ local' = [img |-> Fetched("remote", platform)]
               /\ io' = io \o <<[call |-> "remote.Get", layer |-> -1],
                                 [call |-> "desc.Image", layer |-> -1]>>
               /\ UNCHANGED err
    /\ UNCHANGED <<img1, img2, args, stdout>>

FetchNext == FetchStart \/ FetchRemote

SpecFetch == FetchInit /\ [][FetchNext]_vars

-----------------------------------------------------------------------------
(* The three functions that open layer streams, each called on its own over *)
(* layers that fail to open, to decode a header or to yield a content.      *)

StreamMaxLayers == 2
StreamMaxTotal == 2

BadContent == Entry(<<"d", "/", "a">>, TypeReg, 420, 2, "", "content")

StreamEntries == {File_da_v1, Link_da, BadHeader, BadContent}

StreamInit ==
    /\ \E n \in 1..StreamMaxLayers, t \in 0..StreamMaxTotal :
         \E sizes \in [1..n -> 0..t] :
            /\ SumSeq(sizes) = t
            /\ \E es \in [1..t -> StreamEntries \cup {OpenFails}] :
                    img1 = Image(Cut(es, sizes), "c1")
    /\ img2 = Unused
    /\ args \in {[targetPath |-> q] : q \in {<<"d", "/", "a">>, <<"a">>}}
    /\ pc = "start"
    /\ local = Unused
    /\ stdout = <<>>
    /\ err = None
    /\ io = <<>>

\* content, found, err := extractFileFromLayer(layers[k], targetPath)
StreamExtractFile ==
    /\ pc = "start"
    /\ \E k \in 1..Len(img1.layers) :
         LET r == extractFileFromLayer(img1.layers[k], args.targetPath)
         IN /\ local' = [fn |-> "extractFileFromLayer", found |-> r.found]
            /\ err' = r.err
            /\ io' = Tagged(r.calls, k - 1)
    /\ pc' = "done"
    /\ UNCHANGED <<img1, img2, args, stdout>>

\* files, err := extractFilesFromLayer(layers[k])
StreamExtractFiles ==
    /\ pc = "start"
    /\ \E k \in 1..Len(img1.layers) :
         LET r == extractFilesFromLayer(img1.layers[k])
         IN /\ local' = [fn |-> "extractFilesFromLayer", files |-> r.files]
            /\ err' = r.err
            /\ io' = Tagged(r.calls, k - 1)
    /\ pc' = "done"
    /\ UNCHANGED <<img1, img2, args, stdout>>

\* files, err := extractFileListFromLayers(layers, otherLayerDigests)
StreamExtractFileList ==
    /\ pc = "start"
    /\ \E other \in {{}} \cup {{LayerDigest(img1.layers[k])} :
                                    k \in 1..Len(img1.layers)} :
         LET r == extractFileListFromLayers(img1.layers, other)
         IN /\ local' = [fn |-> "extractFileListFromLayers", files |-> r.files]
            /\ err' = r.err
            /\ io' = r.calls
    /\ pc' = "done"
    /\ UNCHANGED <<img1, img2, args, stdout>>

StreamNext == StreamExtractFile \/ StreamExtractFiles \/ StreamExtractFileList

SpecStream == StreamInit /\ [][StreamNext]_vars

-----------------------------------------------------------------------------
(* cat without --layer over layers that hold directories, links and markers *)
(* at the path asked for.                                                   *)

OverlayMaxLayers == 2
OverlayMaxTotal == 2

\* a directory record as archives usually name it, with a trailing slash,
\* and one named without
Dir_da_slash == Entry(<<"d", "/", "a", "/">>, TypeDir, 493, 0, "", "")
Dir_da == Entry(<<"d", "/", "a">>, TypeDir, 493, 0, "", "")

OverlayEntries == {File_da_v1, Link_da, Dir_da_slash, Dir_da, Wh_da, BadHeader}

CatOverlayInit ==
    /\ \E n \in 0..OverlayMaxLayers, t \in 0..OverlayMaxTotal :
         \E sizes \in [1..n -> 0..t] :
            /\ SumSeq(sizes) = t
            /\ \E es \in [1..t -> OverlayEntries \cup {OpenFails}] :
                    img1 = Image(Cut(es, sizes), "c1")
    /\ img2 = Unused
    /\ args \in {[filePath |-> p, Layer |-> l] : p \in CatPaths, l \in {-1, 0}}
    /\ pc = "start"
    /\ local = Unused
    /\ stdout = <<>>
    /\ err = None
    /\ io = <<>>

SpecCatOverlay == CatOverlayInit /\ [][CatNext]_vars

-----------------------------------------------------------------------------
(* tags: RunTags (internal/command/tags.go) and the human tags view.  img1  *)
(* is the registry's answer to remote.List: the tags in registry order.     *)

MaxTags == 4

TagNames == {"1.0", "1.1", "latest"}

TagsInit ==
    /\ \/ img1 = Unavailable
       \/ \E n \in 0..MaxTags :
            \E tags \in [1..n -> TagNames] : img1 = [tags |-> tags]
    /\ img2 = Unused
    /\ args \in {[imageRef |-> r, Limit |-> l] :
                    r \in {Ref("r1", "t1"), BadRef}, l \in -1..(MaxTags + 1)}
    /\ pc = "start"
    /\ local = Unused
    /\ stdout = <<>>
    /\ err = None
    /\ io = <<>>

\* a plausible slip: the list left in registry order
ReverseOmitted(tags, i, j) == tags

\* the swap loop of RunTags from the 0-based positions i and j on
RECURSIVE Reverse(_, _, _)
Reverse(tags, i, j) ==
    IF i < j
    THEN Reverse([tags EXCEPT ![i + 1] = tags[j + 1], ![j + 1] = tags[i + 1]],
                 i + 1, j - 1)
    ELSE tags

\* opts.Limit > 0 && opts.Limit < len(tags)
LimitApplies(limit, n) == limit > 0 /\ limit < n

\* tagsHumanView.Render
RenderTags(repository, tags) ==
    IF Len(tags) = 0
    THEN <<<<"No tags found for", repository>>>>
    ELSE [k \in 1..Len(tags) |-> <<tags[k]>>]

RunTags ==
    /\ pc = "start"
    /\ pc' = "done"
    /\ IF args.imageRef = BadRef
       THEN /\ err' = <<"failed to parse image reference">>
            /\ UNCHANGED <<io, local, stdout>>
       ELSE /\ io' = <<[call |-> "remote.List", layer |-> -1]>>
            /\ IF img1 = Unavailable
               THEN /\ err' = <<"failed to list tags">>
                    /\ UNCHANGED <<local, stdout>>
               ELSE LET reversed == Reverse(img1.tags, 0, Len(img1.tags) - 1)
                        tags == IF LimitApplies(args.Limit, Len(reversed))
                                THEN SubSeq(reversed, 1, args.Limit)
                                ELSE reversed
                    IN /\ local' = [tags |-> tags]
                       /\ stdout' = RenderTags(args.imageRef.repo, tags)
                       /\ UNCHANGED err
    /\ UNCHANGED <<img1, img2, args>>

TagsNext == RunTags

SpecTags == TagsInit /\ [][TagsNext]_vars

-----------------------------------------------------------------------------
(* The union-filesystem reading of a layer list, as the properties use it. *)

\* a deletion marker: a record whose base name begins with ".wh."
IsWhiteout(e) == HasPrefix(Base(e.Name), WhPrefix)

\* the path a deletion marker deletes: its sibling with ".wh." stripped
WhiteoutTarget(name) ==
    LET np == NormPath(name)
        k == LastSlash(np)
    IN SubSeq(np, 1, k) \o TrimPrefix(SubSeq(np, k + 1, Len(np)), WhPrefix)

\* positions of the records of a layer that write path p
RealAt(layer, p) ==
    {k \in 1..Len(layer.entries) :
        /\ ~IsWhiteout(layer.entries[k])
        /\ NormPath(layer.entries[k].Name) = p}

\* the layer holds a deletion marker for path p
WhiteoutOf(layer, p) ==
    \E k \in 1..Len(layer.entries) :
        /\ IsWhiteout(layer.entries[k])
        /\ WhiteoutTarget(layer.entries[k].Name) = p

Mentions(layer, p) == RealAt(layer, p) # {} \/ WhiteoutOf(layer, p)

\* the highest layer (1-based) that mentions p, 0 when none does
TopMention(layers, p) ==
    LET at == {i \in 1..Len(layers) : Mentions(layers[i], p)}
    IN IF at = {} THEN 0 ELSE CHOOSE i \in at : \A j \in at : j <= i

\* every layer opens and every record of it decodes
Faultless(layers) ==
    \A i \in 1..Len(layers) :
        /\ ~layers[i].openErr
        /\ \A k \in 1..Len(layers[i].entries) : layers[i].entries[k].Bad = ""

\* the layer writes p as a regular file of content c and as nothing else
HoldsRegular(layer, p, c) ==
    /\ RealAt(layer, p) # {}
    /\ \A k \in RealAt(layer, p) :
        /\ layer.entries[k].Typeflag = TypeReg
        /\ layer.entries[k].Content = c

\* RunCat has returned from an overlay search (no --layer) of a faultless image
CatOverlayDone ==
    /\ pc = "done"
    /\ img1 # Unavailable
    /\ args.Layer <= 0
    /\ Faultless(img1.layers)

CatQuery == NormPath(args.filePath)

-----------------------------------------------------------------------------
(* tree: RunTree (tree.go).  extractMergedFilesystem is not among the       *)
(* sources; it is the overlay fold of the specification, section 4.2.       *)

\* one record folded into the flat collection: a deletion marker removes the
\* path it deletes, any other record replaces the entry of its path
MergeEntry(files, header) ==
    IF IsWhiteout(header)
    THEN SelectSeq(files, LAMBDA f : f.Path # WhiteoutTarget(header.Name))
    ELSE Append(SelectSeq(files, LAMBDA f : f.Path # NormPath(header.Name)),
                FileInfoOf(header))

RECURSIVE MergeEntries(_, _, _)
MergeEntries(files, entries, i) ==
    IF i > Len(entries) THEN [files |-> files, err |-> None]
    ELSE IF entries[i].Bad = "header"
    THEN [files |-> None, err |-> <<"failed to read tar header">>]
    ELSE MergeEntries(MergeEntry(files, entries[i]), entries, i + 1)

\* the fold over the layers from layer i (1-based) on, lowest index first
RECURSIVE MergeLoop(_, _, _, _)
MergeLoop(layers, i, files, calls) ==
    IF i > Len(layers) THEN [files |-> files, err |-> None, calls |-> calls]
    ELSE IF layers[i].openErr
    THEN [files |-> None, err |-> <<"failed to get uncompressed layer">>,
          calls |-> calls \o Tagged(<<"Uncompressed">>, i - 1)]
    ELSE LET r == MergeEntries(files, layers[i].entries, 1)
             made == calls \o Tagged(<<"Uncompressed", "Close">>, i - 1)
         IN IF r.err # None
            THEN [files |-> None, err |-> r.err, calls |-> made]
            ELSE MergeLoop(layers, i + 1, r.files, made)

extractMergedFilesystem(layers) == MergeLoop(layers, 1, <<>>, <<>>)

\* rootPath of RunTree
TreeRootPath(path) ==
    IF path # <<>> THEN <<"/">> \o TrimSlashes(path) ELSE <<"/">>

TreePaths == {<<>>, <<"d", "/">>}

DefaultTreeOpts == TreeOpts(-1, FALSE, FALSE, <<>>, FALSE, TRUE)

RunTree ==
    /\ pc = "start"
    /\ pc' = "done"
    /\ IF img1 = Unavailable
       THEN /\ err' = <<"failed to fetch image">>
            /\ io' = <<[call |-> "FetchImage", layer |-> -1]>>
            /\ UNCHANGED <<stdout, local>>
       ELSE LET n == Len(img1.layers)
                called == <<[call |-> "FetchImage", layer |-> -1],
                            [call |-> "Layers", layer |-> -1]>>
            IN IF args.Layer > 0 /\ args.Layer > n
               THEN /\ err' = <<"layer does not exist", args.Layer, n>>
                    /\ io' = called
                    /\ UNCHANGED <<stdout, local>>
               ELSE LET single == extractFilesFromLayer(
                                      img1.layers[IF args.Layer > 0
                                                  THEN args.Layer ELSE 1])
                        r == IF args.Layer > 0
                             THEN [files |-> single.files, err |-> single.err,
                                   calls |-> Tagged(single.calls, args.Layer - 1)]
                             ELSE extractMergedFilesystem(img1.layers)
                    IN /\ io' = called \o r.calls
                       /\ IF r.err # None
                          THEN /\ err' =
                                    IF args.Layer > 0
                                    THEN <<"failed to extract files from layer",
                                           args.Layer, r.err>>
                                    ELSE <<"failed to extract merged filesystem",
                                           r.err>>
                               /\ UNCHANGED <<stdout, local>>
                          ELSE /\ err' = None
                               /\ local' = [files |-> r.files,
                                            rootPath |-> TreeRootPath(args.Path)]
                               /\ LET out == printTreeSimple(r.files,
                                                 TreeRootPath(args.Path), args.opts)
                                  IN stdout' = <<out.rootName>> \o out.lines
    /\ UNCHANGED <<img1, img2, args>>

-----------------------------------------------------------------------------
(* cat, ls and tree side by side, over one set of images.                   *)

FlagEntries == {File_da_v1, File_b, Dir_d, BadHeader}

IsCat == "filePath" \in DOMAIN args
IsLs == "Filter" \in DOMAIN args
IsTree == "Path" \in DOMAIN args

LayerFlagInit ==
    /\ \/ img1 = Unavailable
       \/ \E n \in 0..MaxLayers, t \in 0..FlagMaxTotal :
            \E sizes \in [1..n -> 0..t] :
                /\ SumSeq(sizes) = t
                /\ \E es \in [1..t -> FlagEntries \cup {OpenFails}] :
                        img1 = Image(Cut(es, sizes), "c1")
    /\ img2 = Unused
    /\ \E l \in -1..(LayerCount(img1) + 1) :
         \/ \E p \in CatPaths : args = [filePath |-> p, Layer |-> l]
         \/ \E f \in LsFilters : args = [Layer |-> l, Filter |-> f]
         \/ \E p \in TreePaths :
                args = [Layer |-> l, Path |-> p, opts |-> DefaultTreeOpts]
    /\ pc = "start"
    /\ local = Unused
    /\ stdout = <<>>
    /\ err = None
    /\ io = <<>>

\* the steps of the command the arguments belong to
CatStartStep == IsCat /\ CatStart
CatSearchLayerStep == IsCat /\ CatSearchLayer
CatNotFoundStep == IsCat /\ CatNotFound
RunLsStep == IsLs /\ RunLs
RunTreeStep == IsTree /\ RunTree

LayerFlagNext ==
    \/ CatStartStep
    \/ CatSearchLayerStep
    \/ CatNotFoundStep
    \/ RunLsStep
    \/ RunTreeStep

SpecLayerFlag == LayerFlagInit /\ [][LayerFlagNext]_vars

-----------------------------------------------------------------------------
(* cat, ls and compare side by side, over images whose layers may fail to   *)
(* open or to decode.                                                       *)

CommandsMaxLayers == 2
CommandsMaxTotal == 2

CommandsEntries == {File_da_v1, File_b, BadHeader}

IsCompare == "image1Ref" \in DOMAIN args

CommandsInit ==
    /\ \/ /\ \E n \in 0..CommandsMaxLayers, t \in 0..CommandsMaxTotal :
                \E sizes \in [1..n -> 0..t] :
                    /\ SumSeq(sizes) = t
                    /\ \E es \in [1..t -> CommandsEntries \cup {OpenFails}] :
                            img1 = Image(Cut(es, sizes), "c1")
          /\ img2 = Unused
          /\ \E l \in -1..(LayerCount(img1) + 1) :
                \/ \E p \in CatPaths : args = [filePath |-> p, Layer |-> l]
                \/ \E f \in LsFilters : args = [Layer |-> l, Filter |-> f]
       \/ /\ \E n1, n2 \in 0..CommandsMaxLayers, t \in 0..CommandsMaxTotal :
                \E sizes \in [1..(n1 + n2) -> 0..t] :
                    /\ SumSeq(sizes) = t
                    /\ \E es \in [1..t -> CommandsEntries \cup {OpenFails}],
                          config2 \in {"c1", "c2"} :
                            /\ img1 = Image(SubSeq(Cut(es, sizes), 1, n1), "c1")
                            /\ img2 = Image(SubSeq(Cut(es, sizes), n1 + 1, n1 + n2),
                                            config2)
          /\ args = [image1Ref |-> Ref("r1", "t1"), image2Ref |-> Ref("r1", "t2")]
    /\ pc = "start"
    /\ local = Unused
    /\ stdout = <<>>
    /\ err = None
    /\ io = <<>>

CompareStartStep == IsCompare /\ CompareStart
CompareExtract1Step == IsCompare /\ CompareExtract1
CompareExtract2Step == IsCompare /\ CompareExtract2
CompareReportStep == IsCompare /\ CompareReport

CommandsNext ==
    \/ CatStartStep
    \/ CatSearchLayerStep
    \/ CatNotFoundStep
    \/ RunLsStep
    \/ CompareStartStep
    \/ CompareExtract1Step
    \/ CompareExtract2Step
    \/ CompareReportStep

SpecCommands == CommandsInit /\ [][CommandsNext]_vars

-----------------------------------------------------------------------------
(* Properties of cat. *)

\* C1: cat without --layer: when the highest layer that mentions the path
\* mentions it with a deletion marker only, cat returns "file not found" and
\* prints nothing, whatever lower layers hold.
C1_WhiteoutHidesLowerLayers ==
    (/\ CatOverlayDone
     /\ TopMention(img1.layers, CatQuery) > 0
     /\ LET top == img1.layers[TopMention(img1.layers, CatQuery)]
        IN WhiteoutOf(top, CatQuery) /\ RealAt(top, CatQuery) = {})
    => (err = <<"file not found", CatQuery>> /\ stdout = <<>>)

\* C2: cat without --layer: when the highest layer that mentions the path
\* holds a regular file there, cat prints exactly that layer's content and
\* returns no error.
C2_TopRegularFileIsPrinted ==
    \A c \in {"v1", "v2!"} :
        (/\ CatOverlayDone
         /\ TopMention(img1.layers, CatQuery) > 0
         /\ HoldsRegular(img1.layers[TopMention(img1.layers, CatQuery)],
                         CatQuery, c))
        => (stdout = <<c>> /\ err = None)

\* a file written, deleted by a middle layer and written again with other
\* content: cat has printed the top layer's content
C2_Witness ==
    /\ CatOverlayDone
    /\ Len(img1.layers) = 3
    /\ HoldsRegular(img1.layers[1], CatQuery, "v1")
    /\ WhiteoutOf(img1.layers[2], CatQuery)
    /\ RealAt(img1.layers[2], CatQuery) = {}
    /\ HoldsRegular(img1.layers[3], CatQuery, "v2!")
    /\ stdout = <<"v2!">>
    /\ err = None


-----------------------------------------------------------------------------
(* Properties of ls. *)

\* one record folded into a snapshot (a function from path to record): a
\* deletion marker removes its target, any other record overwrites its path
FoldEntry(snap, e) ==
    IF IsWhiteout(e)
    THEN [q \in DOMAIN snap \ {WhiteoutTarget(e.Name)} |-> snap[q]]
    ELSE [q \in DOMAIN snap \cup {NormPath(e.Name)} |->
             IF q = NormPath(e.Name) THEN e ELSE snap[q]]

RECURSIVE FoldEntries(_, _, _)
FoldEntries(snap, entries, i) ==
    IF i > Len(entries) THEN snap
    ELSE FoldEntries(FoldEntry(snap, entries[i]), entries, i + 1)

\* the merged overlay snapshot: every layer folded, bottom layer first
RECURSIVE Overlay(_, _)
Overlay(layers, n) ==
    IF n = 0 THEN <<>>
    ELSE FoldEntries(Overlay(layers, n - 1), layers[n].entries, 1)

ListedPaths == {local.files[k].Path : k \in 1..Len(local.files)}

\* C3: ls without --layer lists the merged overlay filesystem of all the
\* layers, not the records of one layer.
C3_LsDefaultIsMergedOverlay ==
    (/\ pc = "done"
     /\ img1 # Unavailable
     /\ args.Layer <= 0
     /\ args.Filter = <<>>
     /\ Len(img1.layers) >= 1
     /\ Faultless(img1.layers))
    => (/\ err = None
        /\ ListedPaths = DOMAIN Overlay(img1.layers, Len(img1.layers)))

\* the paths of the records of a layer that are no deletion markers, in
\* archive order
RawPaths(layer) ==
    LET kept == SelectSeq(layer.entries, LAMBDA e : ~IsWhiteout(e))
    IN [k \in 1..Len(kept) |-> NormPath(kept[k].Name)]

\* C4: ls --layer N lists exactly the records of layer N that are no deletion
\* markers, in archive order, whatever the other layers hold (their deletion
\* markers and their faults included).
C4_SingleLayerIsRawDelta ==
    (/\ pc = "done"
     /\ img1 # Unavailable
     /\ args.Layer > 0
     /\ args.Layer <= Len(img1.layers)
     /\ args.Filter = <<>>
     /\ Faultless(<<img1.layers[args.Layer]>>))
    => (/\ err = None
        /\ [k \in 1..Len(local.files) |-> local.files[k].Path]
               = RawPaths(img1.layers[args.Layer]))

\* layer 1 holds a file and a deletion marker, layer 2 deletes the file: the
\* listing of layer 1 is the file alone
C4_Witness ==
    /\ pc = "done"
    /\ img1 # Unavailable
    /\ args.Layer = 1
    /\ args.Filter = <<>>
    /\ Len(img1.layers) = 2
    /\ img1.layers[1].entries = <<Wh_da, File_da_v1>>
    /\ img1.layers[2].entries = <<Wh_da>>
    /\ err = None
    /\ stdout = <<<<"Mode", "Size", "Path">>,
                  <<<<"-", "r", "w", "-", "r", "-", "-", "r", "-", "-">>,
                    <<2, "B">>, <<"/", "d", "/", "a">>>>>>


-----------------------------------------------------------------------------
(* Properties of compareFiles. *)

SetOf(seq) == {seq[k] : k \in 1..Len(seq)}

\* C5: compareFiles puts the paths of image 2's set alone in added, those of
\* image 1's set alone in removed and those of both in modified; the sets
\* {/a, /b} and {/b, /c} give added [/c], removed [/a], modified [/b].
C5_DiffClassification ==
    pc = "done" =>
        /\ SetOf(local.diff.added) = args.files2 \ args.files1
        /\ SetOf(local.diff.removed) = args.files1 \ args.files2
        /\ SetOf(local.diff.modified) = args.files1 \cap args.files2
        /\ (/\ args.files1 = {<<"/", "a">>, <<"/", "b">>}
            /\ args.files2 = {<<"/", "b">>, <<"/", "c">>})
           => /\ local.diff.added = <<<<"/", "c">>>>
              /\ local.diff.removed = <<<<"/", "a">>>>
              /\ local.diff.modified = <<<<"/", "b">>>>

\* the sets of the example have been compared
C5_Witness ==
    /\ pc = "done"
    /\ args.files1 = {<<"/", "a">>, <<"/", "b">>}
    /\ args.files2 = {<<"/", "b">>, <<"/", "c">>}
    /\ local.diff = [added |-> <<<<"/", "c">>>>, removed |-> <<<<"/", "a">>>>,
                     modified |-> <<<<"/", "b">>>>]

\* strictly ascending in bytewise lexicographic order
Ascending(seq) == \A i \in 1..(Len(seq) - 1) : StrLess(seq[i], seq[i + 1])

\* C6: added, removed and modified are pairwise disjoint and each is in
\* strictly ascending lexicographic order (so without duplicates), in whatever
\* order the maps were iterated.
C6_DiffDisjointSorted ==
    pc = "done" =>
        /\ SetOf(local.diff.added) \cap SetOf(local.diff.removed) = {}
        /\ SetOf(local.diff.added) \cap SetOf(local.diff.modified) = {}
        /\ SetOf(local.diff.removed) \cap SetOf(local.diff.modified) = {}
        /\ Ascending(local.diff.added)
        /\ Ascending(local.diff.removed)
        /\ Ascending(local.diff.modified)

\* both maps were iterated out of order, and every output is non-empty
C6_Witness ==
    /\ pc = "done"
    /\ ~Ascending(local.order1)
    /\ ~Ascending(local.order2)
    /\ Len(local.diff.added) >= 2
    /\ Len(local.diff.removed) >= 1
    /\ Len(local.diff.modified) >= 1
    /\ Ascending(local.diff.added)

-----------------------------------------------------------------------------
(* Properties of compare.                                                   *)

\* RunCompare has returned for two references that parse
CompareDone ==
    /\ pc = "done"
    /\ args.image1Ref # BadRef
    /\ args.image2Ref # BadRef

\* the calls of the log with the given name
CallsNamed(call) == SelectSeq(io, LAMBDA c : c.call = call)

\* C7: when the two images' whole-image digests are equal, RunCompare prints
\* "Images are identical" and nothing else, returns no error, and requests no
\* layer list and opens no layer stream.
C7_IdenticalDigestsShortCircuit ==
    (/\ CompareDone
     /\ args.image1Ref.repo = args.image2Ref.repo
     /\ img1 # Unavailable
     /\ img2 # Unavailable
     /\ ImageDigest(img1) = ImageDigest(img2))
    => /\ stdout = <<<<"Images are identical">>>>
       /\ err = None
       /\ CallsNamed("Layers") = <<>>
       /\ CallsNamed("Uncompressed") = <<>>

\* two different tags of one repository that name one image with layers
C7_Witness ==
    /\ CompareDone
    /\ args.image1Ref # args.image2Ref
    /\ img1 # Unavailable
    /\ img2 # Unavailable
    /\ ImageDigest(img1) = ImageDigest(img2)
    /\ Len(img1.layers) > 0
    /\ stdout = <<<<"Images are identical">>>>

\* C8: when the two references name different repositories, RunCompare returns
\* the same-repository error and has fetched no image, read no digest, opened
\* no layer stream and printed nothing.
C8_DifferentRepositoriesRejected ==
    (/\ CompareDone
     /\ args.image1Ref.repo # args.image2Ref.repo)
    => /\ err = <<"images must be from the same repository",
                  args.image1Ref.repo, args.image2Ref.repo>>
       /\ io = <<>>
       /\ stdout = <<>>

\* references of two repositories whose images exist, have layers and differ
C8_Witness ==
    /\ CompareDone
    /\ args.image1Ref.repo # args.image2Ref.repo
    /\ img1 # Unavailable
    /\ img2 # Unavailable
    /\ Len(img1.layers) > 0
    /\ ImageDigest(img1) # ImageDigest(img2)
    /\ err # None

\* the 0-based indices of the layers opened in image number image, in order
Opened(image) ==
    LET calls == SelectSeq(io, LAMBDA c : c.call = "Uncompressed" /\ c.image = image)
    IN [k \in 1..Len(calls) |-> calls[k].layer]

\* the 0-based indices, ascending, of the layers whose digest is not in other
RECURSIVE UniqueIdx(_, _, _)
UniqueIdx(layers, other, i) ==
    IF i > Len(layers) THEN <<>>
    ELSE (IF LayerDigest(layers[i]) \in other THEN <<>> ELSE <<i - 1>>)
         \o UniqueIdx(layers, other, i + 1)

StrictlyIncreasing(s) == \A k \in 1..(Len(s) - 1) : s[k] < s[k + 1]

ImageNo(image) == IF image = 1 THEN img1 ELSE img2

\* C9: during a compare no layer whose digest is also a layer digest of the
\* other image is ever opened; the layers opened in an image are opened in
\* strictly increasing index order (so none twice); and once both extractions
\* have succeeded the layers opened in each image are exactly its unique ones.
C9_SharedLayersSkippedUniqueOpenedOnce ==
    /\ \A k \in 1..Len(io) :
         io[k].call = "Uncompressed" =>
            LayerDigest(ImageNo(io[k].image).layers[io[k].layer + 1])
                \notin LayerDigests(ImageNo(3 - io[k].image).layers)
    /\ StrictlyIncreasing(Opened(1))
    /\ StrictlyIncreasing(Opened(2))
    /\ pc \in {"extract2", "report"} =>
         Opened(1) = UniqueIdx(img1.layers, LayerDigests(img2.layers), 1)
    /\ pc = "report" =>
         Opened(2) = UniqueIdx(img2.layers, LayerDigests(img1.layers), 1)
    /\ (pc = "done" /\ err = None /\ CallsNamed("Layers") # <<>>) =>
         /\ Opened(1) = UniqueIdx(img1.layers, LayerDigests(img2.layers), 1)
         /\ Opened(2) = UniqueIdx(img2.layers, LayerDigests(img1.layers), 1)

\* a finished compare of an image with a shared and a unique layer against an
\* image with a unique layer
C9_Witness ==
    /\ pc = "done"
    /\ err = None
    /\ CallsNamed("Layers") # <<>>
    /\ \E i \in 1..Len(img1.layers) :
         LayerDigest(img1.layers[i]) \in LayerDigests(img2.layers)
    /\ Len(Opened(1)) > 0
    /\ Len(Opened(2)) > 0

-----------------------------------------------------------------------------
(* Properties of extractFileListFromLayers.                                 *)

\* the layer is scanned: its digest is not among the other image's
IsUnique(layer) == LayerDigest(layer) \notin args.otherLayerDigests

\* the layer writes p as a regular file
AddsRegular(layer, p) ==
    \E k \in RealAt(layer, p) : layer.entries[k].Typeflag = TypeReg

ExtractPaths == {NormPath(File_a.Name), NormPath(File_da_v1.Name)}

\* C10: when a unique layer holds a deletion marker for p, an earlier unique
\* layer added p as a regular file, and neither the marker's layer nor a later
\* unique layer writes p, then p is absent from the returned path set.
C10_WhiteoutRemovesEarlierPath ==
    (pc = "done" /\ err = None) =>
        \A p \in ExtractPaths :
            \A j \in 1..Len(img1.layers) :
                (/\ IsUnique(img1.layers[j])
                 /\ WhiteoutOf(img1.layers[j], p)
                 /\ \E i \in 1..(j - 1) :
                        IsUnique(img1.layers[i]) /\ AddsRegular(img1.layers[i], p)
                 /\ \A m \in j..Len(img1.layers) :
                        IsUnique(img1.layers[m]) => RealAt(img1.layers[m], p) = {})
                => p \notin local.files

\* C11: no path whose base name begins with ".wh." is in the path set that
\* extractFileListFromLayers returns, for markers at the archive root and in
\* subdirectories.
C11_MarkerPathNeverInserted ==
    (pc = "done" /\ err = None) =>
        \A p \in local.files : ~HasPrefix(Base(p), WhPrefix)

-----------------------------------------------------------------------------
(* Properties of the paths produced while scanning a layer.                 *)

\* exactly one leading slash, and no trailing slash unless the path is "/"
Canonical(p) ==
    /\ Len(p) >= 1
    /\ p[1] = "/"
    /\ Len(p) > 1 => (p[2] # "/" /\ p[Len(p)] # "/")

\* C12: every path of an entry that extractFilesFromLayer produced begins
\* with exactly one "/" and has no trailing "/" unless it is the root, for
\* every raw archive name, directory names ending in "/" included.
C12_ScannedPathsCanonical ==
    (pc = "done" /\ err = None) =>
        \A k \in 1..Len(local.files) : Canonical(local.files[k].Path)

-----------------------------------------------------------------------------
(* Properties of extractFileFromLayer.                                      *)

\* C13: for a query path p without a leading slash, extractFileFromLayer
\* returns the same content, found flag and error for p and for "/" + p.
C13_LeadingSlashInsensitive ==
    pc = "done" =>
        /\ local.plain.content = local.slashed.content
        /\ local.plain.found = local.slashed.found
        /\ local.plain.err = local.slashed.err

\* a regular file stored without a leading slash is found by both queries
C13_Witness ==
    /\ pc = "done"
    /\ args.targetPath = <<"d", "/", "a">>
    /\ img1.layers[1].entries = <<File_da_v1>>
    /\ local.plain.found
    /\ local.slashed.found
    /\ local.plain.content = "v1"

\* the position of the first record of the layer at path p, Len + 1 when none
FirstAt(layer, p) ==
    LET at == {k \in 1..Len(layer.entries) : NormPath(layer.entries[k].Name) = p}
    IN IF at = {} THEN Len(layer.entries) + 1
       ELSE CHOOSE k \in at : \A j \in at : k <= j

\* reading the layer for p fails: it does not open, or a header fails to
\* decode before a record at p is reached
ReadFails(layer, p) ==
    \/ layer.openErr
    \/ \E k \in 1..Len(layer.entries) :
            layer.entries[k].Bad = "header" /\ k <= FirstAt(layer, p)

\* the layers (0-based) RunCat has opened so far, in order
CatOpened ==
    LET calls == SelectSeq(io, LAMBDA c : c.call = "Uncompressed")
    IN [k \in 1..Len(calls) |-> calls[k].layer]

\* C14: a layer that opens and decodes and has no record at the normalized
\* path yields empty content, found = FALSE and no error; RunCat returns
\* "file not found" only after every layer to search was opened, read without
\* failure and held no file at the path; and when a searched layer failed to
\* open or decode, RunCat returns the read failure, never "file not found".
C14_NotFoundDistinctFromFailure ==
    (/\ img1 # Unavailable
     /\ pc \in {"search", "done"}
     /\ ~(args.Layer > Len(img1.layers)))
    => /\ \A i \in 1..Len(img1.layers) :
            (/\ ~ReadFails(img1.layers[i], CatQuery)
             /\ FirstAt(img1.layers[i], CatQuery) > Len(img1.layers[i].entries))
            => LET r == extractFileFromLayer(img1.layers[i], CatFilePath(args.filePath))
               IN r.content = "" /\ ~r.found /\ r.err = None
       /\ (pc = "done" /\ err = <<"file not found", CatFilePath(args.filePath)>>)
            => /\ CatOpened = LayersToSearch(Len(img1.layers), args.Layer)
               /\ stdout = <<>>
               /\ \A k \in 1..Len(CatOpened) :
                    LET layer == img1.layers[CatOpened[k] + 1]
                        at == FirstAt(layer, CatQuery)
                    IN /\ ~ReadFails(layer, CatQuery)
                       /\ at <= Len(layer.entries) => IsWhiteout(layer.entries[at])
       /\ (pc = "done" /\ \E k \in 1..Len(CatOpened) :
                            ReadFails(img1.layers[CatOpened[k] + 1], CatQuery))
            => /\ err # None
               /\ err[1] = "failed to read layer"
               /\ stdout = <<>>

\* an overlay search that passed a layer without the file and then met a
\* layer that fails
C14_Witness ==
    /\ pc = "done"
    /\ img1 # Unavailable
    /\ args.Layer <= 0
    /\ Len(CatOpened) >= 2
    /\ ReadFails(img1.layers[CatOpened[Len(CatOpened)] + 1], CatQuery)
    /\ err # None
    /\ err[1] = "failed to read layer"

-----------------------------------------------------------------------------
(* Properties of --layer in cat, ls and tree.                               *)

\* C15: in cat, ls and tree, --layer N with N greater than the layer count
\* returns the "layer N does not exist" error with no layer stream opened and
\* nothing printed; with 1 <= N <= count the one layer opened is index N - 1.
C15_LayerFlagSelectsOrRejects ==
    (pc = "done" /\ img1 # Unavailable /\ args.Layer > 0) =>
        IF args.Layer > Len(img1.layers)
        THEN /\ err = <<"layer does not exist", args.Layer, Len(img1.layers)>>
             /\ CatOpened = <<>>
             /\ stdout = <<>>
        ELSE /\ CatOpened = <<args.Layer - 1>>
             /\ \A k \in 1..Len(io) : io[k].layer \in {-1, args.Layer - 1}

\* tree --layer 2 of an image of three layers, finished without error
C15_Witness ==
    /\ pc = "done"
    /\ IsTree
    /\ img1 # Unavailable
    /\ Len(img1.layers) = 3
    /\ args.Layer = 2
    /\ err = None
    /\ CatOpened = <<1>>

-----------------------------------------------------------------------------
(* Properties of filterFiles.                                               *)

\* the text after the last "/" of a path
LastSegment(path) == SubSeq(path, LastSlash(path) + 1, Len(path))

\* what a glob pattern keeps: without "/" the paths whose final segment
\* matches; with "/" the paths that match in full, without the leading slash
\* or, for a pattern that begins with "/", with it
GlobKeeps(path, pattern) ==
    IF ~Contains(pattern, <<"/">>)
    THEN Match(pattern, LastSegment(path))
    ELSE \/ Match(pattern, TrimPrefix(path, <<"/">>))
         \/ HasPrefix(pattern, <<"/">>) /\ Match(pattern, path)

-----------------------------------------------------------------------------
(* Properties of printTreeSimple.                                           *)

\* the entry lines printed, after the root line
TreeLines == Tail(stdout)

PrintedPaths == {TreeLines[k].path : k \in 1..Len(TreeLines)}

\* r + "/" for the normalized root r ("/" for the root "/")
RootPrefix(r) == IF r = <<"/">> THEN r ELSE r \o <<"/">>

\* the path of an entry relative to the root r it lies below
Below(path, r) == TrimSuffix(TrimPrefix(path, RootPrefix(r)), <<"/">>)

\* the statement of C17 as written: an entry passes the prefix test exactly
\* when its path equals r or begins with r + "/"
C17_PrefixTestAsStated ==
    pc = "done" =>
        \A k \in 1..Len(args.files) :
            LET path == args.files[k].Path
            IN (\E j \in 1..Len(local.prefixed) : local.prefixed[j].Path = path)
               <=> (path = args.rootPath \/ HasPrefix(path, RootPrefix(args.rootPath)))

\* C17: every entry printed below root r has a path that begins with r + "/",
\* and every direct child of r in the collection is printed when no hidden,
\* dirs-only or exclude filter applies.
C17_OnlyRootSubtreePrinted ==
    pc = "done" =>
        /\ \A p \in PrintedPaths :
                HasPrefix(p, RootPrefix(args.rootPath)) /\ p # args.rootPath
        /\ (args.opts.All /\ ~args.opts.DirsOnly /\ args.opts.Exclude = <<>>) =>
                \A k \in 1..Len(args.files) :
                    LET path == args.files[k].Path
                        rel == Below(path, args.rootPath)
                    IN (/\ HasPrefix(path, RootPrefix(args.rootPath))
                        /\ rel # <<>>
                        /\ CountSlashes(rel) = 0)
                       => TrimSuffix(path, <<"/">>) \in PrintedPaths

\* root /d over a collection that holds /d/a and the sibling /da
C17_Witness ==
    /\ pc = "done"
    /\ args.rootPath = <<"/", "d">>
    /\ \E k \in 1..Len(args.files) : args.files[k].Path = <<"/", "d", "a">>
    /\ \E k \in 1..Len(args.files) : args.files[k].Path = <<"/", "d", "/", "a">>
    /\ PrintedPaths = {<<"/", "d", "/", "a">>}

\* C18: with a depth limit L > 0 every entry printed lies at most L path
\* segments below the root; with L = 1 on the root "/" only direct children
\* of "/" are printed.
C18_DepthLimit ==
    (pc = "done" /\ args.opts.Level > 0) =>
        \A p \in PrintedPaths :
            /\ HasPrefix(p, RootPrefix(args.rootPath))
            /\ CountSlashes(Below(p, args.rootPath)) + 1 <= args.opts.Level

\* limit 1 on the root "/" over a directory and a file inside it
C18_Witness ==
    /\ pc = "done"
    /\ args.opts.Level = 1
    /\ args.rootPath = <<"/">>
    /\ \E k \in 1..Len(args.files) : args.files[k].Path = <<"/", "d", "/">>
    /\ \E k \in 1..Len(args.files) : args.files[k].Path = <<"/", "d", "/", "a">>
    /\ PrintedPaths = {<<"/", "d">>}

\* some segment of the relative path begins with "."
HiddenSegment(rel) ==
    \E k \in 1..Len(rel) : rel[k] = "." /\ (k = 1 \/ rel[k - 1] = "/")

\* the statement of C19 as written: with All = FALSE no printed entry has a
\* dot-prefixed base name or lies beneath a dot-prefixed directory
C19_NoHiddenAsStated ==
    (pc = "done" /\ ~args.opts.All) =>
        \A p \in PrintedPaths : ~HiddenSegment(TrimPrefix(p, <<"/">>))

\* C19: with All = FALSE no printed entry has a dot-prefixed base name or lies
\* beneath a dot-prefixed directory below the root; with All = TRUE a hidden
\* direct child of the root is printed when no other filter applies.
C19_HiddenBelowRootExcluded ==
    pc = "done" =>
        /\ ~args.opts.All =>
                \A p \in PrintedPaths :
                    /\ HasPrefix(p, RootPrefix(args.rootPath))
                    /\ ~HiddenSegment(Below(p, args.rootPath))
        /\ (args.opts.All /\ ~args.opts.DirsOnly /\ args.opts.Exclude = <<>>) =>
                \A k \in 1..Len(args.files) :
                    LET path == args.files[k].Path
                        rel == Below(path, args.rootPath)
                    IN (/\ HasPrefix(path, RootPrefix(args.rootPath))
                        /\ rel # <<>>
                        /\ CountSlashes(rel) = 0
                        /\ rel[1] = ".")
                       => TrimSuffix(path, <<"/">>) \in PrintedPaths

\* All = FALSE on the root "/" over a hidden directory, a file inside it and
\* a visible directory
C19_Witness ==
    /\ pc = "done"
    /\ ~args.opts.All
    /\ args.rootPath = <<"/">>
    /\ \E k \in 1..Len(args.files) : args.files[k].Path = <<"/", ".", "h", "/">>
    /\ \E k \in 1..Len(args.files) : args.files[k].Path = <<"/", ".", "h", "/", "a">>
    /\ PrintedPaths = {<<"/", "d">>}

-----------------------------------------------------------------------------
(* Properties of FetchImage.                                                *)

RemoteCalls == SelectSeq(io, LAMBDA c : c.call \in {"remote.Get", "desc.Image"})

\* C20: with pull policy "never" FetchImage makes no remote call in any
\* state; when the daemon lookup fails it returns an error and no image, and
\* when the daemon has the image that image is returned.
C20_NeverPolicyStaysLocal ==
    (/\ args.imageRef # "bad ref"
     /\ args.opts # NilOptions
     /\ args.opts.PullPolicy = PullNever)
    => /\ RemoteCalls = <<>>
       /\ pc # "remote"
       /\ pc = "done" =>
            IF img1 = Unavailable
            THEN /\ err = <<"image not found locally and pull policy is 'never'">>
                 /\ local = Unused
            ELSE /\ err = None
                 /\ local = [img |-> Fetched("daemon", img1.platform)]

\* policy "never", nothing in the daemon, the image in the registry
C20_Witness ==
    /\ pc = "done"
    /\ args.imageRef # "bad ref"
    /\ args.opts # NilOptions
    /\ args.opts.PullPolicy = PullNever
    /\ img1 = Unavailable
    /\ img2 # Unavailable
    /\ img2.platforms = Platforms
    /\ err # None
    /\ io = <<[call |-> "daemon.Image", layer |-> -1]>>

DaemonCalls == SelectSeq(io, LAMBDA c : c.call = "daemon.Image")

\* C21: under "if-not-present" (also nil options or an empty policy) the
\* daemon is asked first; an image found there is returned with no remote
\* call, and the registry is contacted only after the daemon lookup failed.
\* Under "always" the daemon is never asked.
C21_DaemonFirstUnlessAlways ==
    args.imageRef # "bad ref" =>
        /\ PolicyOf(args.opts) = PullIfNotPresent =>
            /\ pc # "start" => (io # <<>> /\ io[1].call = "daemon.Image")
            /\ RemoteCalls # <<>> => img1 = Unavailable
            /\ pc = "remote" => img1 = Unavailable
            /\ (pc = "done" /\ img1 # Unavailable) =>
                /\ RemoteCalls = <<>>
                /\ err = None
                /\ local = [img |-> Fetched("daemon", img1.platform)]
        /\ PolicyOf(args.opts) = PullAlways => DaemonCalls = <<>>

\* nil options, nothing in the daemon: the registry is asked after the daemon
C21_Witness ==
    /\ pc = "done"
    /\ args.imageRef # "bad ref"
    /\ args.opts = NilOptions
    /\ img1 = Unavailable
    /\ io = <<[call |-> "daemon.Image", layer |-> -1],
              [call |-> "remote.Get", layer |-> -1],
              [call |-> "desc.Image", layer |-> -1]>>
    /\ local = [img |-> Fetched("remote", DefaultPlatform)]

\* C22: when a platform is asked for, the image FetchImage returns is of that
\* platform, under every pull policy and whatever the daemon holds.
C22_ReturnedImageIsOfAskedPlatform ==
    (/\ pc = "done"
     /\ args.opts # NilOptions
     /\ args.opts.Platform \in Platforms
     /\ err = None)
    => local.img.platform = args.opts.Platform

-----------------------------------------------------------------------------
(* Properties of the outcomes with no result.                               *)

\* the files RunLs is left with for a selected layer and a filter
LsFiltered(layer, filter) ==
    LET r == extractFilesFromLayer(layer)
    IN IF filter # <<>> THEN filterFiles(r.files, filter) ELSE r.files

\* RunLs got as far as listing layer args.Layer (or the top one) and read it
LsListed ==
    /\ IsLs
    /\ pc = "done"
    /\ LayerCount(img1) > 0
    /\ args.Layer <= LayerCount(img1)
    /\ extractFilesFromLayer(
            img1.layers[LsLayerIdx(LayerCount(img1), args.Layer) + 1]).err = None

LsSelected == img1.layers[LsLayerIdx(LayerCount(img1), args.Layer) + 1]

\* RunCompare read both images' file lists
CompareListed ==
    /\ IsCompare
    /\ pc = "done"
    /\ ImageDigest(img1) # ImageDigest(img2)
    /\ extractFileListFromLayers(img1.layers, LayerDigests(img2.layers)).err = None
    /\ extractFileListFromLayers(img2.layers, LayerDigests(img1.layers)).err = None

\* nothing added (in the second list only), removed (in the first only) or
\* modified (in both)
CompareNoChanges ==
    LET files1 == extractFileListFromLayers(img1.layers,
                                           LayerDigests(img2.layers)).files
        files2 == extractFileListFromLayers(img2.layers,
                                           LayerDigests(img1.layers)).files
    IN (files2 \ files1) \cup (files1 \ files2) \cup (files1 \cap files2) = {}

\* C23: when filtering leaves no entry RunLs returns no error and prints a
\* "No files" message, with the pattern when a filter was given; a compare
\* with nothing added, removed or modified returns no error and prints
\* "No file changes detected" and no section.
C23_NoMatchIsSuccess ==
    /\ (LsListed /\ LsFiltered(LsSelected, args.Filter) = <<>>) =>
            /\ err = None
            /\ stdout = IF args.Filter # <<>>
                        THEN <<<<"No files matching pattern", args.Filter>>>>
                        ELSE <<<<"No files found">>>>
    /\ (CompareListed /\ CompareNoChanges) =>
            /\ err = None
            /\ Len(stdout) = 7
            /\ stdout[7] = <<"No file changes detected">>

\* a filter that keeps none of the files of a layer that has some
C23_Witness ==
    /\ LsListed
    /\ args.Filter # <<>>
    /\ extractFilesFromLayer(LsSelected).files # <<>>
    /\ LsFiltered(LsSelected, args.Filter) = <<>>
    /\ err = None

\* two images that differ in their configuration only
C23_WitnessCompare ==
    /\ CompareListed
    /\ CompareNoChanges
    /\ Len(img1.layers) > 0
    /\ Len(img1.layers[1].entries) > 0
    /\ stdout # <<>>

-----------------------------------------------------------------------------
(* Properties of the layer streams.                                         *)

\* call k of the log opened a stream: Uncompressed() on a layer that opens
StreamOpens(k) ==
    /\ io[k].call = "Uncompressed"
    /\ ~img1.layers[io[k].layer + 1].openErr

\* the streams of layer l (all layers when l = -1) open after call k
OpenAfter(k, l) ==
    Cardinality({j \in 1..k : StreamOpens(j) /\ (l = -1 \/ io[j].layer = l)})
        - Cardinality({j \in 1..k : io[j].call = "Close"
                                      /\ (l = -1 \/ io[j].layer = l)})

\* C24: in extractFileFromLayer, extractFilesFromLayer and
\* extractFileListFromLayers at most one layer stream is open at any moment,
\* only an open stream is closed, and on return, whatever the exit path, every
\* opened stream has been closed.
C24_StreamsScoped ==
    /\ \A k \in 1..Len(io) :
         /\ OpenAfter(k, -1) \in {0, 1}
         /\ OpenAfter(k, io[k].layer) \in {0, 1}
    /\ pc = "done" =>
         \A l \in -1..(Len(img1.layers) - 1) : OpenAfter(Len(io), l) = 0

\* extractFileListFromLayers read one layer to its end and failed on the
\* content of a file of the next
C24_Witness ==
    /\ pc = "done"
    /\ local.fn = "extractFileListFromLayers"
    /\ err = <<"failed to skip file contents">>
    /\ Len(io) = 4
    /\ StreamOpens(3)

-----------------------------------------------------------------------------
(* Properties of the failure of a layer.                                    *)

\* the layer fails to open or holds a record that fails to decode
LayerFails(layer) ==
    \/ layer.openErr
    \/ \E k \in 1..Len(layer.entries) : layer.entries[k].Bad = "header"

\* the 0-based indices of the layers of an image that the other image does not
\* share and that fail
FailingUnique(img, other) ==
    {i \in 0..(Len(img.layers) - 1) :
        /\ LayerDigest(img.layers[i + 1]) \notin LayerDigests(other.layers)
        /\ LayerFails(img.layers[i + 1])}

Least(S) == CHOOSE i \in S : \A j \in S : i <= j

\* RunCompare got as far as reading the layers
CompareRead ==
    /\ IsCompare
    /\ pc = "done"
    /\ ImageDigest(img1) # ImageDigest(img2)

\* C25: a layer that fails to open or decode aborts the operation with the
\* error and no partial result: extractFileListFromLayers and
\* extractFilesFromLayer return no collection with the error, RunCompare
\* prints nothing, and no layer after the failing one is opened.
C25_LayerFailureAborts ==
    /\ (IsLs \/ IsCat) =>
         \A k \in 1..LayerCount(img1) :
            LayerFails(img1.layers[k]) =>
                /\ extractFilesFromLayer(img1.layers[k]).err # None
                /\ extractFilesFromLayer(img1.layers[k]).files = None
    /\ (IsLs /\ pc = "done" /\ LayerCount(img1) > 0
             /\ args.Layer <= LayerCount(img1)
             /\ LayerFails(img1.layers[LsLayerIdx(LayerCount(img1), args.Layer) + 1]))
        => /\ err # None
           /\ stdout = <<>>
    /\ (CompareRead /\ FailingUnique(img1, img2) # {}) =>
         LET f == Least(FailingUnique(img1, img2))
             r == extractFileListFromLayers(img1.layers, LayerDigests(img2.layers))
         IN /\ r.err # None
            /\ r.files = {}
            /\ err = <<"failed to extract files from first image", r.err>>
            /\ stdout = <<>>
            /\ Opened(1) = SelectSeq(UniqueIdx(img1.layers,
                                               LayerDigests(img2.layers), 1),
                                     LAMBDA i : i <= f)
            /\ Opened(2) = <<>>
    /\ (CompareRead /\ FailingUnique(img1, img2) = {}
                    /\ FailingUnique(img2, img1) # {}) =>
         LET f == Least(FailingUnique(img2, img1))
             r == extractFileListFromLayers(img2.layers, LayerDigests(img1.layers))
         IN /\ r.err # None
            /\ r.files = {}
            /\ err = <<"failed to extract files from second image", r.err>>
            /\ stdout = <<>>
            /\ Opened(2) = SelectSeq(UniqueIdx(img2.layers,
                                               LayerDigests(img1.layers), 1),
                                     LAMBDA i : i <= f)

\* the first image's base layer holds a file and its second layer fails to
\* decode, while the second image has a layer of its own to read
C25_Witness ==
    /\ CompareRead
    /\ Len(img1.layers) = 2
    /\ img1.layers[1].entries = <<File_b>>
    /\ img1.layers[2].entries = <<BadHeader>>
    /\ Len(img2.layers) = 1
    /\ ~img2.layers[1].openErr
    /\ Opened(1) = <<0, 1>>
    /\ err # None

\* the layer number (1-based, as the commands print it) the returned error
\* carries, 0 when it carries none
ErrLayer == IF Len(err) = 3 THEN err[2] ELSE 0

DecodeError == <<"failed to read tar header">>

\* the 0-based index of the layer whose stream was used last
LastOpened == io[Len(io)].layer

\* C26: a malformed archive header in layer k surfaces which layer failed:
\* the error cat, ls and compare return identifies layer k.
C26_DecodeFailureNamesLayer ==
    /\ (IsCat /\ pc = "done" /\ io # <<>> /\ LastOpened >= 0
              /\ extractFileFromLayer(img1.layers[LastOpened + 1],
                                      CatFilePath(args.filePath)).err = DecodeError)
        => ErrLayer = LastOpened + 1
    /\ (IsLs /\ pc = "done" /\ io # <<>> /\ LastOpened >= 0
             /\ extractFilesFromLayer(img1.layers[LastOpened + 1]).err = DecodeError)
        => ErrLayer = LastOpened + 1
    /\ (CompareRead /\ io # <<>> /\ LastOpened >= 0
             /\ FailingUnique(img1, img2) \cup FailingUnique(img2, img1) # {}
             /\ err # None /\ err[2] = DecodeError)
        => ErrLayer = LastOpened + 1

-----------------------------------------------------------------------------
(* Properties of RunTags.                                                   *)

\* RunTags listed the registry's tags
TagsListed ==
    /\ pc = "done"
    /\ args.imageRef # BadRef
    /\ img1 # Unavailable

\* C27: RunTags renders the registry's tags in exactly reversed order; with a
\* limit L, 0 < L < n, exactly the first L tags of the reversed list, and with
\* L = 0 or L >= n all n tags; never more than n tags, and no tag altered.
C27_TagsReversedAndLimited ==
    TagsListed =>
        LET n == Len(img1.tags)
            L == args.Limit
            shown == IF 0 < L /\ L < n THEN L ELSE n
        IN /\ err = None
           /\ Len(local.tags) = shown
           /\ Len(local.tags) <= n
           /\ \A k \in 1..shown : local.tags[k] = img1.tags[n + 1 - k]
           /\ (L = 0 \/ L >= n) => Len(local.tags) = n
           /\ n > 0 => /\ Len(stdout) = shown
                       /\ \A k \in 1..shown : stdout[k] = <<img1.tags[n + 1 - k]>>

\* four tags, the last two rendered newest first
C27_Witness ==
    /\ TagsListed
    /\ Len(img1.tags) = 4
    /\ img1.tags[3] # img1.tags[4]
    /\ args.Limit = 2
    /\ local.tags = <<img1.tags[4], img1.tags[3]>>

-----------------------------------------------------------------------------
(* Properties of the layer index of RunLs.                                  *)

\* C28: for every layer count and every --layer value RunLs either selects an
\* index within the layer list or returns an error; it never indexes the list
\* out of range, an image with no layers and no --layer included.
C28_LayerIndexInRange ==
    (pc = "done" /\ img1 # Unavailable) =>
        /\ err # None => err[1] # "panic: index out of range"
        /\ err = None =>
            /\ local.layerIdx \in 0..(Len(img1.layers) - 1)
            /\ CatOpened = <<local.layerIdx>>

-----------------------------------------------------------------------------
(* Properties of the overlay search of RunCat.                              *)

\* the path a record stands for in the union filesystem: one leading slash
\* and no trailing one
EntryPath(e) == NormPath(StripTrailingSlashes(e.Name))

\* positions of the records of a layer, deletion markers aside, at path p
EntriesAt(layer, p) ==
    {k \in 1..Len(layer.entries) :
        /\ layer.entries[k].Bad = ""
        /\ ~IsWhiteout(layer.entries[k])
        /\ EntryPath(layer.entries[k]) = p}

\* the highest layer (1-based) with a record or a deletion marker for p,
\* 0 when there is none
TopLayerAt(layers, p) ==
    LET at == {i \in 1..Len(layers) :
                    EntriesAt(layers[i], p) # {} \/ WhiteoutOf(layers[i], p)}
    IN IF at = {} THEN 0 ELSE CHOOSE i \in at : \A j \in at : j <= i

\* the overlay search opens the layers top down, each one below the last
C29_OpenedTopDown ==
    \A k \in 1..Len(CatOpened) : CatOpened[k] = Len(img1.layers) - k

\* no lower layer is opened once an opened layer holds a regular file at the path
C29_StopsAtRegularFile ==
    \A i \in 1..Len(img1.layers) :
        (/\ \E k \in 1..Len(CatOpened) : CatOpened[k] = i - 1
         /\ ~img1.layers[i].openErr
         /\ \E k \in EntriesAt(img1.layers[i], CatQuery) :
                img1.layers[i].entries[k].Typeflag = TypeReg)
        => \A k \in 1..Len(CatOpened) : CatOpened[k] >= i - 1

\* the topmost layer with the path holds nothing but non-regular entries there
\* and it and the layers above it open and decode: cat returns the
\* "not a regular file" error and opens nothing below
C29_NonRegularDoesNotFallThrough ==
    LET top == TopLayerAt(img1.layers, CatQuery)
    IN (/\ pc = "done"
        /\ top > 0
        /\ \A i \in top..Len(img1.layers) : ~LayerFails(img1.layers[i])
        /\ EntriesAt(img1.layers[top], CatQuery) # {}
        /\ ~WhiteoutOf(img1.layers[top], CatQuery)
        /\ \A k \in EntriesAt(img1.layers[top], CatQuery) :
                img1.layers[top].entries[k].Typeflag # TypeReg)
       => /\ err # None
          /\ err[1] = "failed to read layer"
          /\ err[2] = top
          /\ stdout = <<>>
          /\ \A k \in 1..Len(CatOpened) : CatOpened[k] >= top - 1

\* C29: RunCat without --layer opens the layers in strictly decreasing index
\* order, one at a time, and stops at the first layer that yields an outcome:
\* no lower layer is opened once a layer holds a regular file at the path, and
\* a non-regular entry in the topmost layer with the path gives the
\* "not a regular file" error with no fall through to a lower layer.
C29_OverlaySearchStopsAtFirstOutcome ==
    /\ C29_OpenedTopDown
    /\ \A k \in 1..Len(io) : OpenAfter(k, -1) \in {0, 1}
    /\ C29_StopsAtRegularFile
    /\ C29_NonRegularDoesNotFallThrough

-----------------------------------------------------------------------------
(* The entries printTreeSimple prints, characterized.                       *)

CleanPath(file) == TrimSuffix(file.Path, <<"/">>)

\* the entry lies strictly below the root r
StrictlyBelow(file, r) ==
    /\ HasPrefix(file.Path, RootPrefix(r))
    /\ Below(file.Path, r) # <<>>

\* the entry passes the hidden, dirs-only, exclude and depth filters
PassesFilters(file, r, opts) ==
    LET base == LastSegment(CleanPath(file))
    IN /\ opts.All \/ base[1] # "."
       /\ opts.DirsOnly => file.Mode[1] = "d"
       /\ opts.Exclude # <<>> =>
            /\ ~Match(opts.Exclude, base)
            /\ ~Match(opts.Exclude, CleanPath(file))
       /\ opts.Level > 0 => CountSlashes(Below(file.Path, r)) + 1 <= opts.Level

\* the directories strictly between the root r and the path p below it
AncestorsBetween(p, r) ==
    {SubSeq(p, 1, k - 1) : k \in {j \in 1..Len(p) : p[j] = "/" /\ j > Len(RootPrefix(r))}}

\* what the statement says is printed
ExpectedPrinted(files, r, opts) ==
    {CleanPath(files[k]) : k \in
        {i \in 1..Len(files) :
            /\ StrictlyBelow(files[i], r)
            /\ PassesFilters(files[i], r, opts)
            /\ \A a \in AncestorsBetween(CleanPath(files[i]), r) :
                \E j \in 1..Len(files) :
                    /\ CleanPath(files[j]) = a
                    /\ files[j].Mode[1] = "d"
                    /\ PassesFilters(files[j], r, opts)}}

\* C30: printTreeSimple prints an entry if and only if it lies strictly below
\* the root, passes the hidden, dirs-only, exclude and depth filters, and every
\* directory strictly between the root and the entry is in the collection as
\* a directory entry that passes those filters; an entry outside the root's
\* subtree, a sibling that shares the root's name as a prefix included, is
\* never printed.
C30_PrintedIffReachableBelowRoot ==
    pc = "done" =>
        /\ PrintedPaths = ExpectedPrinted(args.files, args.rootPath, args.opts)
        /\ \A p \in PrintedPaths :
                HasPrefix(p, RootPrefix(args.rootPath)) /\ p # args.rootPath

\* root /d over a directory, a file inside it, and the sibling /da
C30_Witness ==
    /\ pc = "done"
    /\ args.rootPath = <<"/", "d">>
    /\ \E k \in 1..Len(args.files) : args.files[k].Path = <<"/", "d", "a">>
    /\ \E k \in 1..Len(args.files) : args.files[k].Path = <<"/", "d", "/", "c", "/">>
    /\ PrintedPaths = {<<"/", "d", "/", "c">>, <<"/", "d", "/", "c", "/", "b">>}

=============================================================================
